---- MODULE Spec2Model ----
(***************************************************************************)
(* Scoring engine and backtesting engine of Crypto Aladdin:                *)
(*   StrategyLoader        src/src/scoring_engine/strategy_loader.py       *)
(*   ScoreCalculator       src/src/scoring_engine/score_calculator.py      *)
(*   AssetRanker           src/src/scoring_engine/ranking.py               *)
(*   MarketRegimeDetector  src/src/scoring_engine/market_regime.py         *)
(*   BacktestEngine        src/src/backtesting/engine.py                   *)
(*                                                                         *)
(* Numbers.  The code computes in floating point; the model computes the   *)
(* same quantities exactly, as integers over a stated denominator:         *)
(*   - a weight is num/den: the built-in weights are hundredths, a custom  *)
(*     weight is read in thousandths (the resolution of the 0.001          *)
(*     tolerance) and a normalised weight is v/total;                      *)
(*   - a z-score is an integer of [-3, 3];                                 *)
(*   - a score of the 0..100 scale is a fraction num/den.                  *)
(***************************************************************************)
EXTENDS Integers, Sequences, FiniteSets, TLC

VARIABLES
    strategies,     \* StrategyLoader.strategies: name -> strategy
    last_call,      \* the last call on the loader: its argument and its result
    score_call,     \* a calculate_scores call: its arguments and its result
    rank_call,      \* a create_combined_ranking call: its arguments and its result
    regime_call,    \* an analyze_market_condition call: its arguments and its result
    bt_params,      \* run_backtest: strategy_name, rebalance_days, top_n
    bt_day,         \* run_backtest: the row (date) of the price matrix last simulated
    bt_run,         \* run_backtest: the columns of that row, and what ffill carries
    bt_alt,         \* the same for a second run, on a perturbed price matrix
    bt_pert,        \* the perturbation: its date and its asset
    pipeline,       \* run_full_pipeline: its inputs, its position, what it has done
    factor_call     \* a call of a FactorCalculator method: its arguments and its result

vars == <<strategies, last_call, score_call, rank_call, regime_call,
          bt_params, bt_day, bt_run, bt_alt, bt_pert, pipeline, factor_call>>
registryVars == <<strategies, last_call>>
btVars == <<bt_params, bt_day, bt_run, bt_alt, bt_pert>>

Abs(x) == IF x < 0 THEN -x ELSE x

None == [kind |-> "none"]
\* The result of a call that has not run yet.
Pending == [outcome |-> "pending"]
\* run_full_pipeline has not been called.
NoPipeline == pipeline = [pc |-> "idle"]
\* No FactorCalculator method has been called.
NoFactorCall == factor_call = [result |-> Pending]
\* No BacktestEngine has been constructed.
NoBacktest ==
    /\ bt_params = None
    /\ bt_day = -1
    /\ bt_run = None
    /\ bt_alt = None
    /\ bt_pert = [kind |-> "none", day |-> -1, asset |-> "none"]

(***************************************************************************)
(* StrategyLoader                                                          *)
(***************************************************************************)

\* A strategy is [weights |-> factor -> numerator, den |-> denominator,
\* order |-> the keys of the weights dict in their insertion order]: the
\* weight of factor f is weights[f] / den.
Hundredths == 100

DEFAULT_STRATEGIES ==
    [n \in {"balanced", "defi_value", "short_speculative"} |->
        CASE n = "balanced" ->
               [weights |-> ("momentum_30d" :> 25) @@ ("quality_sharpe" :> 20)
                        @@ ("low_volatility" :> 15) @@ ("size_large" :> 10)
                        @@ ("category_advantage" :> 10) @@ ("tvl_strength" :> 10)
                        @@ ("correlation_low" :> 10),
                den |-> Hundredths,
                order |-> <<"momentum_30d", "quality_sharpe", "low_volatility",
                            "size_large", "category_advantage", "tvl_strength",
                            "correlation_low">>]
          [] n = "defi_value" ->
               [weights |-> ("defi_value" :> 35) @@ ("tvl_strength" :> 20)
                        @@ ("quality_dev" :> 15) @@ ("quality_sharpe" :> 15)
                        @@ ("momentum_30d" :> 15),
                den |-> Hundredths,
                order |-> <<"defi_value", "tvl_strength", "quality_dev",
                            "quality_sharpe", "momentum_30d">>]
          [] n = "short_speculative" ->
               [weights |-> ("momentum_7d_bearish" :> 40) @@ ("high_volatility" :> 20)
                        @@ ("value_nvt" :> 20) @@ ("quality_sharpe" :> -20),
                den |-> Hundredths,
                order |-> <<"momentum_7d_bearish", "high_volatility",
                            "value_nvt", "quality_sharpe">>]]

\* sum(abs(v) for v in weights.values())
RECURSIVE SumAbs(_, _)
SumAbs(w, S) ==
    IF S = {} THEN 0
    ELSE LET k == CHOOSE x \in S : TRUE
         IN  Abs(w[k]) + SumAbs(w, S \ {k})

\* The weights of a strategy document are read in thousandths: 0.001, the
\* tolerance of validate_strategy_weights, is 1 unit.
Milli == 1000
Tolerance == 1

\* {k: v for k, v in weights.items() if v != 0}
DropZeroWeights(w) == [k \in {x \in DOMAIN w : w[x] # 0} |-> w[k]]
\* The keys of the comprehension's result, in the order of the source dict.
KeptKeys(order, kept) == SelectSeq(order, LAMBDA k : k \in DOMAIN kept)

\* The body of validate_strategy_weights on a mapping of numbers, the
\* fractions weights[k] / den: the sum of their absolute values is
\* SumAbs / den, and dividing weights[k] / den by it gives weights[k] / SumAbs.
MDividesByCount(strategy) ==
    LET weights == DropZeroWeights(strategy.weights)
        total_weight == SumAbs(weights, DOMAIN weights)
        order == KeptKeys(strategy.order, weights)
    IN  IF total_weight = 0 THEN [outcome |-> "false"]
        ELSE IF Abs(total_weight - strategy.den) * Milli > Tolerance * strategy.den
        THEN [outcome |-> "true",
              strategy |-> [weights |-> weights,
                            den |-> strategy.den * Cardinality(DOMAIN weights),
                            order |-> order]]
        ELSE [outcome |-> "true",
              strategy |-> [weights |-> weights, den |-> strategy.den,
                            order |-> order]]
normalise_weights(strategy) ==
    LET weights == DropZeroWeights(strategy.weights)
        total_weight == SumAbs(weights, DOMAIN weights)
        order == KeptKeys(strategy.order, weights)
    IN  IF total_weight = 0 THEN [outcome |-> "false"]
        ELSE IF Abs(total_weight - strategy.den) * Milli > Tolerance * strategy.den
        THEN \* weights[key] / total_weight
             [outcome |-> "true",
              strategy |-> [weights |-> weights, den |-> total_weight,
                            order |-> order]]
        ELSE [outcome |-> "true",
              strategy |-> [weights |-> weights, den |-> strategy.den,
                            order |-> order]]

\* validate_strategy_weights(strategy): "raise" when the entry is no mapping
\* with a mapping of numbers under 'weights' (None, a list, strings: the
\* `in` test, .items() or abs() raises), else whether it was accepted and
\* the strategy as the call leaves it.
MValidateKeepsUnnormalised(entry) ==
    CASE entry.kind = "not_mapping" -> [outcome |-> "raise"]
      [] entry.kind = "no_weights" -> [outcome |-> "false"]
      [] OTHER ->
           LET weights == DropZeroWeights(entry.weights)
               total_weight == SumAbs(weights, DOMAIN weights)
               order == KeptKeys(entry.order, weights)
           IN  IF total_weight = 0 THEN [outcome |-> "false"]
               ELSE [outcome |-> "true",
                     strategy |-> [weights |-> weights, den |-> Milli,
                                   order |-> order]]
validate_strategy_weights(entry) ==
    CASE entry.kind = "not_mapping" -> [outcome |-> "raise"]
      [] entry.kind = "no_weights" -> [outcome |-> "false"]
      [] OTHER -> normalise_weights([weights |-> entry.weights, den |-> Milli,
                                       order |-> entry.order])

\* The loop of load_custom_strategies over data.items(), from entry i on:
\* valid_strategies, or "raise" when a validation raised.
RECURSIVE ValidateAll(_, _, _)
ValidateAll(data, i, valid_strategies) ==
    IF i > Len(data) THEN [outcome |-> "done", valid |-> valid_strategies]
    ELSE LET name == data[i].name
             v == validate_strategy_weights(data[i].entry)
         IN  CASE v.outcome = "raise" -> [outcome |-> "raise"]
               [] v.outcome = "true" ->
                    ValidateAll(data, i + 1,
                        [n \in DOMAIN valid_strategies \cup {name} |->
                            IF n = name THEN v.strategy ELSE valid_strategies[n]])
               [] OTHER -> ValidateAll(data, i + 1, valid_strategies)

\* self.strategies.update(valid_strategies)
MReplaceRegistry(registry, valid) == valid
UpdateRegistry(registry, valid) ==
    [n \in DOMAIN registry \cup DOMAIN valid |->
        IF n \in DOMAIN valid THEN valid[n] ELSE registry[n]]

\* What load_custom_strategies leaves in self.strategies.  A file of an
\* unsupported suffix returns early; an unreadable or unparsable file, and
\* an exception of the validation loop, end in the except clause: both
\* leave the registry as it was.
LoadResult(registry, doc) ==
    IF doc.status # "parsed" THEN registry
    ELSE LET r == ValidateAll(doc.data, 1, <<>>)
         IN  IF r.outcome = "raise" THEN registry
             ELSE UpdateRegistry(registry, r.valid)

\* get_strategy(strategy_name); KeyError when the fallback is not there.
KeyError == [kind |-> "KeyError"]
get_strategy(registry, strategy_name) ==
    IF strategy_name \notin DOMAIN registry
    THEN IF "balanced" \in DOMAIN registry THEN registry["balanced"] ELSE KeyError
    ELSE registry[strategy_name]

----
\* The strategy documents of the model.
MaxEntries == 2
DocNames == {"balanced", "custom"}
DocFactorOrder == <<"momentum_30d", "quality_sharpe">>
DocFactors == {DocFactorOrder[i] : i \in 1..Len(DocFactorOrder)}
DocWeights == {-500, 0, 501}
QueryNames == DOMAIN DEFAULT_STRATEGIES \cup DocNames \cup {"unknown"}

WeightMaps == [DocFactors -> DocWeights]
Entries == {[kind |-> "no_weights"], [kind |-> "not_mapping"]}
           \cup {[kind |-> "weights", weights |-> w, order |-> DocFactorOrder]
                 : w \in WeightMaps}
\* A mapping: no name twice, in the order of the file.
DocData ==
    UNION {{d \in [1..n -> [name : DocNames, entry : Entries]] :
                \A i, j \in 1..n : i # j => d[i].name # d[j].name}
           : n \in 0..MaxEntries}
Documents ==
    {[status |-> "unsupported", data |-> <<>>],
     [status |-> "unreadable", data |-> <<>>]}
    \cup {[status |-> "parsed", data |-> d] : d \in DocData}

\* StrategyLoader(): the registry after construction.
RegistryInit ==
    /\ strategies = DEFAULT_STRATEGIES
    /\ last_call = None
    /\ score_call = [result |-> Pending]
    /\ rank_call = [result |-> Pending]
    /\ regime_call = [result |-> Pending]
    /\ NoBacktest
    /\ NoPipeline
    /\ NoFactorCall

load_custom_strategies(doc) ==
    /\ strategies' = LoadResult(strategies, doc)
    /\ last_call' = [kind |-> "load", doc |-> doc]
    /\ UNCHANGED <<score_call, rank_call, regime_call, btVars, pipeline, factor_call>>

GetStrategyCall(name) ==
    /\ last_call' = [kind |-> "get", name |-> name,
                     result |-> get_strategy(strategies, name)]
    /\ UNCHANGED <<strategies, score_call, rank_call, regime_call, btVars, pipeline, factor_call>>

\* validate_strategy_weights(self.strategies[name]): the call writes the
\* weights back into the strategy it was given, which is the registry's.
ValidateRegistered(name) ==
    /\ name \in DOMAIN strategies
    /\ LET v == normalise_weights(strategies[name])
       IN  /\ last_call' = [kind |-> "validate", name |-> name,
                            before |-> strategies[name], result |-> v]
           /\ strategies' = IF v.outcome = "true"
                            THEN [strategies EXCEPT ![name] = v.strategy]
                            ELSE strategies
    /\ UNCHANGED <<score_call, rank_call, regime_call, btVars, pipeline, factor_call>>

RegistryNext ==
    \/ \E doc \in Documents : load_custom_strategies(doc)
    \/ \E name \in QueryNames : GetStrategyCall(name)
    \/ \E name \in QueryNames : ValidateRegistered(name)

SpecRegistry == RegistryInit /\ [][RegistryNext]_vars

(***************************************************************************)
(* ScoreCalculator                                                         *)
(***************************************************************************)

\* coin_id of the assets, in row order; the symbol column is a function of it.
CoinIds == <<"bitcoin", "ethereum", "solana", "cardano">>
Symbol(coin_id) ==
    CASE coin_id = "bitcoin" -> "btc" [] coin_id = "ethereum" -> "eth"
      [] coin_id = "solana" -> "sol" [] OTHER -> "ada"

\* A fraction num/den, den > 0, kept in lowest terms.
RECURSIVE GCD(_, _)
GCD(a, b) == IF b = 0 THEN a ELSE GCD(b, a % b)
Frac(n, d) ==
    LET g == GCD(Abs(n), d)
    IN  [num |-> n \div g, den |-> d \div g]
FracLess(a, b) == a.num * b.den < b.num * a.den
FracEq(a, b) == a.num * b.den = b.num * a.den
FracLeqInt(a, k) == a.num <= k * a.den

EmptyTable == [outcome |-> "empty"]

\* raw_score += factors_df[factor].values * weight, over used_factors
RECURSIVE WeightedSum(_, _, _)
WeightedSum(zrow, weights, used) ==
    IF used = <<>> THEN 0
    ELSE zrow[Head(used)] * weights[Head(used)] + WeightedSum(zrow, weights, Tail(used))

SetMin(S) == CHOOSE x \in S : \A y \in S : x <= y
SetMax(S) == CHOOSE x \in S : \A y \in S : x >= y

\* ((raw_score - min_s) / (max_s - min_s)) * 100, or 50.0 when all are equal
MEqualScoresGetZero(raw, min_s, max_s) ==
    IF max_s > min_s THEN Frac((raw - min_s) * 100, max_s - min_s)
    ELSE Frac(0, 1)
MinMaxScore(raw, min_s, max_s) ==
    IF max_s > min_s THEN Frac((raw - min_s) * 100, max_s - min_s)
    ELSE Frac(50, 1)

\* pd.cut(score, bins=[-1, 20, 40, 60, 80, 101], labels=[...])
Verdict(score) ==
    CASE FracLeqInt(score, 20) -> "Strong Sell"
      [] FracLeqInt(score, 40) -> "Sell"
      [] FracLeqInt(score, 60) -> "Neutral"
      [] FracLeqInt(score, 80) -> "Buy"
      [] OTHER -> "Strong Buy"

\* min(contributions, key=contributions.get)
MLeastFactor(zrow, weights, used) ==
    LET c(k) == zrow[used[k]] * weights[used[k]]
        least == CHOOSE k \in 1..Len(used) :
                    /\ \A j \in 1..Len(used) : c(k) <= c(j)
                    /\ \A j \in 1..(k - 1) : c(k) < c(j)
    IN  used[least]

\* max(contributions, key=contributions.get): the first key, in the order of
\* used_factors, whose contribution is maximal.
BestFactor(zrow, weights, used) ==
    LET c(k) == zrow[used[k]] * weights[used[k]]
        best == CHOOSE k \in 1..Len(used) :
                    /\ \A j \in 1..Len(used) : c(j) <= c(k)
                    /\ \A j \in 1..(k - 1) : c(j) < c(k)
    IN  used[best]

\* sort_values('score', ascending=False).reset_index(drop=True); rows of
\* equal score keep their order.
SortByScoreDesc(rows) ==
    LET n == Len(rows)
        pos(i) == 1 + Cardinality({j \in 1..n :
                        \/ FracLess(rows[i].score, rows[j].score)
                        \/ FracEq(rows[i].score, rows[j].score) /\ j < i})
    IN  [k \in 1..n |-> rows[CHOOSE i \in 1..n : pos(i) = k]]

\* calculate_scores(factors_df, strategy_name) on the loader's registry.
\* factors_df is [coins |-> the coin_id column, columns |-> its factor
\* columns, z |-> row -> column -> value].
calculate_scores(registry, factors_df, strategy_name) ==
    IF Len(factors_df.coins) = 0 THEN EmptyTable
    ELSE
    LET strategy == get_strategy(registry, strategy_name)
        weights == strategy.weights
        n == Len(factors_df.coins)
        used_factors == SelectSeq(strategy.order, LAMBDA f : f \in factors_df.columns)
        raw_score(i) == WeightedSum(factors_df.z[i], weights, used_factors)
        min_s == SetMin({raw_score(i) : i \in 1..n})
        max_s == SetMax({raw_score(i) : i \in 1..n})
        score(i) == MinMaxScore(raw_score(i), min_s, max_s)
        \* rank(ascending=False, method='min')
        rank(i) == 1 + Cardinality({j \in 1..n : FracLess(score(i), score(j))})
        scores_df ==
            [i \in 1..n |->
                [coin_id |-> factors_df.coins[i],
                 symbol |-> Symbol(factors_df.coins[i]),
                 raw_score |-> Frac(raw_score(i), strategy.den),
                 score |-> score(i),
                 rank |-> rank(i),
                 verdict |-> Verdict(score(i)),
                 primary_driver |-> BestFactor(factors_df.z[i], weights, used_factors)]]
    IN  IF DOMAIN weights = {} THEN EmptyTable
        \* max() of the empty contributions dict
        ELSE IF used_factors = <<>> THEN [outcome |-> "raise", error |-> "ValueError"]
        ELSE [outcome |-> "table", rows |-> SortByScoreDesc(scores_df)]

----
\* The factor panels of the model.
MaxPanelAssets == 2
PanelFactors == {"momentum_30d", "quality_sharpe"}
ZValues == {-2, 0, 2}

Panels ==
    UNION {{[coins |-> SubSeq(CoinIds, 1, n), columns |-> C, z |-> z]
                : z \in [1..n -> [C -> ZValues]]}
           : n \in 0..MaxPanelAssets, C \in SUBSET PanelFactors}

\* The registries of a loader that has loaded at most one document.
LoadedRegistries == {LoadResult(DEFAULT_STRATEGIES, doc) : doc \in Documents}

\* A call of calculate_scores about to run: its arguments are drawn here.
ScoreInit ==
    /\ strategies \in LoadedRegistries
    /\ last_call = None
    /\ score_call \in [factors_df : Panels, strategy_name : QueryNames,
                        result : {Pending}]
    /\ rank_call = [result |-> Pending]
    /\ regime_call = [result |-> Pending]
    /\ NoBacktest
    /\ NoPipeline
    /\ NoFactorCall

CalculateScores ==
    /\ score_call.result = Pending
    /\ score_call' = [score_call EXCEPT !.result =
            calculate_scores(strategies, score_call.factors_df,
                             score_call.strategy_name)]
    /\ UNCHANGED <<registryVars, rank_call, regime_call, btVars, pipeline, factor_call>>

ScoreNext == CalculateScores

SpecScore == ScoreInit /\ [][ScoreNext]_vars

\* Calls of calculate_scores on panels of three assets, where two assets can
\* share a score above or below the third, on the built-in registry.
WidePanels ==
    UNION {{[coins |-> SubSeq(CoinIds, 1, 3), columns |-> C, z |-> z]
                : z \in [1..3 -> [C -> ZValues]]}
           : C \in SUBSET PanelFactors}

WideScoreInit ==
    /\ strategies = DEFAULT_STRATEGIES
    /\ last_call = None
    /\ score_call \in [factors_df : WidePanels, strategy_name : QueryNames,
                        result : {Pending}]
    /\ rank_call = [result |-> Pending]
    /\ regime_call = [result |-> Pending]
    /\ NoBacktest
    /\ NoPipeline
    /\ NoFactorCall

SpecScoreWide == WideScoreInit /\ [][ScoreNext]_vars

(***************************************************************************)
(* AssetRanker                                                             *)
(***************************************************************************)

FracGeqInt(a, k) == a.num >= k * a.den
\* score_long - score_short
MNetScoreAdds(a, b) == Frac(a.num * b.den + b.num * a.den, a.den * b.den)
NetScore(a, b) == Frac(a.num * b.den - b.num * a.den, a.den * b.den)

\* df.empty
IsEmpty(df) == df.outcome = "empty" \/ Len(df.rows) = 0

\* pd.merge(long_df[['coin_id', 'symbol', 'score', 'rank']],
\*          short_df[['coin_id', 'score', 'rank']], on='coin_id',
\*          suffixes=('_long', '_short'), how='inner'):
\* one row per pair of rows of equal coin_id, in the order of the left rows.
RECURSIVE MergeInner(_, _, _, _)
MergeInner(long_rows, short_rows, i, j) ==
    IF i > Len(long_rows) THEN <<>>
    ELSE IF j > Len(short_rows) THEN MergeInner(long_rows, short_rows, i + 1, 1)
    ELSE LET l == long_rows[i]
             r == short_rows[j]
             rest == MergeInner(long_rows, short_rows, i, j + 1)
         IN  IF l.coin_id = r.coin_id
             THEN <<[coin_id |-> l.coin_id, symbol |-> l.symbol,
                     score_long |-> l.score, rank_long |-> l.rank,
                     score_short |-> r.score, rank_short |-> r.rank]>> \o rest
             ELSE rest

\* The conditions of the short side taken in the other order.
MSignalWeakFirst(net_score) ==
    CASE FracGeqInt(net_score, 50) -> "Strong Buy"
      [] FracGeqInt(net_score, 15) -> "Buy"
      [] FracLeqInt(net_score, -15) -> "Sell"
      [] FracLeqInt(net_score, -50) -> "Strong Sell"
      [] OTHER -> "Neutral"

\* np.select(conditions, choices, default='Neutral'): the first that holds
Signal(net_score) ==
    CASE FracGeqInt(net_score, 50) -> "Strong Buy"
      [] FracGeqInt(net_score, 15) -> "Buy"
      [] FracLeqInt(net_score, -50) -> "Strong Sell"
      [] FracLeqInt(net_score, -15) -> "Sell"
      [] OTHER -> "Neutral"

\* sort_values('net_score', ascending=False).reset_index(drop=True), then
\* final_rank = index + 1; rows of equal net_score keep their order.
SortByNetScoreDesc(rows) ==
    LET n == Len(rows)
        pos(i) == 1 + Cardinality({j \in 1..n :
                        \/ FracLess(rows[i].net_score, rows[j].net_score)
                        \/ FracEq(rows[i].net_score, rows[j].net_score) /\ j < i})
    IN  [k \in 1..n |-> rows[CHOOSE i \in 1..n : pos(i) = k]]

create_combined_ranking(long_df, short_df) ==
    IF IsEmpty(long_df) \/ IsEmpty(short_df) THEN EmptyTable
    ELSE
    LET merged == MergeInner(long_df.rows, short_df.rows, 1, 1)
        withNet == [k \in 1..Len(merged) |->
            LET net_score == NetScore(merged[k].score_long, merged[k].score_short)
            IN  [coin_id |-> merged[k].coin_id, symbol |-> merged[k].symbol,
                 score_long |-> merged[k].score_long,
                 rank_long |-> merged[k].rank_long,
                 score_short |-> merged[k].score_short,
                 rank_short |-> merged[k].rank_short,
                 net_score |-> net_score,
                 rank_diff |-> merged[k].rank_short - merged[k].rank_long,
                 signal |-> Signal(net_score)]]
        sorted == SortByNetScoreDesc(withNet)
    IN  [outcome |-> "table",
         rows |-> [k \in 1..Len(sorted) |->
                      [coin_id |-> sorted[k].coin_id, symbol |-> sorted[k].symbol,
                       score_long |-> sorted[k].score_long,
                       rank_long |-> sorted[k].rank_long,
                       score_short |-> sorted[k].score_short,
                       rank_short |-> sorted[k].rank_short,
                       net_score |-> sorted[k].net_score,
                       rank_diff |-> sorted[k].rank_diff,
                       signal |-> sorted[k].signal,
                       final_rank |-> k]]]

----
\* The Score tables of the model: what calculate_scores returns for a panel
\* of the model under the long and the short strategy of the pipeline (one
\* row per asset), and the empty table.
RankStrategies == {"balanced", "short_speculative"}
ScoreTables ==
    {EmptyTable} \cup
    {t \in {calculate_scores(DEFAULT_STRATEGIES, p, n) :
                p \in Panels, n \in RankStrategies} : t.outcome = "table"}

RankingInit ==
    /\ strategies = DEFAULT_STRATEGIES
    /\ last_call = None
    /\ score_call = [result |-> Pending]
    /\ rank_call \in [long_df : ScoreTables, short_df : ScoreTables,
                       result : {Pending}]
    /\ regime_call = [result |-> Pending]
    /\ NoBacktest
    /\ NoPipeline
    /\ NoFactorCall

CreateCombinedRanking ==
    /\ rank_call.result = Pending
    /\ rank_call' = [rank_call EXCEPT !.result =
            create_combined_ranking(rank_call.long_df, rank_call.short_df)]
    /\ UNCHANGED <<registryVars, score_call, regime_call, btVars, pipeline, factor_call>>

RankingNext == CreateCombinedRanking

SpecRanking == RankingInit /\ [][RankingNext]_vars

\* The two Score tables as the pipeline makes them: calculate_dual_scores
\* scores one panel under the long and under the short strategy. The panels
\* have three assets, so that scores strictly between 0 and 100 occur. A
\* panel on which either call raises never reaches the ranking.
DualScores ==
    {d \in {[long_df |-> calculate_scores(DEFAULT_STRATEGIES, p, "balanced"),
             short_df |-> calculate_scores(DEFAULT_STRATEGIES, p, "short_speculative"),
             result |-> Pending] : p \in WidePanels} :
        d.long_df.outcome # "raise" /\ d.short_df.outcome # "raise"}

WideRankingInit ==
    /\ strategies = DEFAULT_STRATEGIES
    /\ last_call = None
    /\ score_call = [result |-> Pending]
    /\ rank_call \in DualScores
    /\ regime_call = [result |-> Pending]
    /\ NoBacktest
    /\ NoPipeline
    /\ NoFactorCall

SpecRankingWide == WideRankingInit /\ [][RankingNext]_vars

(***************************************************************************)
(* MarketRegimeDetector                                                    *)
(***************************************************************************)

\* len(prices) below which the regime is not analysed
MinHistory == 30
\* prices.iloc[-7], prices.iloc[-30]
Back7 == 7
Back30 == 30
\* the thresholds of the regime decision, in percent
Strong30 == 20
Strong7 == 5

NeutralVerdict ==
    [regime |-> "neutral", suggested_strategy |-> "balanced",
     btc_change_7d |-> Frac(0, 1), btc_change_30d |-> Frac(0, 1)]

\* btc_df.set_index('date').sort_index(): the rows in ascending date order
SortByDate(rows) ==
    LET n == Len(rows)
        pos(i) == 1 + Cardinality({j \in 1..n : rows[j].date < rows[i].date})
    IN  [k \in 1..n |-> rows[CHOOSE i \in 1..n : pos(i) = k]]

\* (current_price / price_then - 1) * 100 if price_then > 0 else 0
PctChange(current_price, price_then) ==
    IF price_then > 0
    THEN Frac((current_price - price_then) * 100, price_then)
    ELSE Frac(0, 1)

\* The regime decision of lines 89-104, on the two changes in percent.
DecideRegime(change_7d, change_30d) ==
    LET gt(x, k) == x.num > k * x.den
        lt(x, k) == x.num < k * x.den
        verdict(regime, strategy) ==
            [regime |-> regime, suggested_strategy |-> strategy,
             btc_change_7d |-> change_7d, btc_change_30d |-> change_30d]
    IN  CASE gt(change_30d, Strong30) -> verdict("bull", "momentum_growth")
          [] lt(change_30d, -Strong30) -> verdict("bear", "value_defensive")
          [] gt(change_7d, Strong7) -> verdict("bull", "momentum_growth")
          [] lt(change_7d, -Strong7) -> verdict("bear", "value_defensive")
          [] OTHER -> verdict("neutral", "balanced")

\* analyze_market_condition(market_data, historical_data).
\* historical_data.bitcoin is [present |-> whether the dict has a 'bitcoin'
\* key, rows |-> the rows [date, price] of its frame]; market_data is
\* "no_columns" (a frame without a coin_id column, on which
\* market_data['coin_id'] raises KeyError and the except clause answers
\* neutral) or [kind |-> "rows", has_bitcoin, bitcoin |-> the bitcoin row,
\* with price_change_percentage_7d and _30d as .get(..., 0) or 0 reads them].  The volatility field of the verdict, a
\* standard deviation that takes no part in the decision, is left out.
analyze_market_condition(market_data, historical_data) ==
    LET btc_data == historical_data.bitcoin.rows
        no_history == ~historical_data.bitcoin.present \/ Len(btc_data) = 0
    IN  IF no_history /\ market_data.kind = "no_columns" THEN NeutralVerdict
        ELSE IF no_history /\ ~market_data.has_bitcoin THEN NeutralVerdict
        ELSE IF ~no_history
        THEN LET prices == SortByDate(btc_data)
                 n == Len(prices)
             IN  IF n < MinHistory THEN NeutralVerdict
                 ELSE DecideRegime(
                        PctChange(prices[n].price, prices[n - Back7 + 1].price),
                        PctChange(prices[n].price, prices[n - Back30 + 1].price))
        ELSE DecideRegime(
                Frac(market_data.bitcoin.price_change_percentage_7d, 1),
                Frac(market_data.bitcoin.price_change_percentage_30d, 1))

----
\* The benchmark histories of the model: up to MaxHistory daily rows, given
\* in ascending or descending date order, at BasePrice except for the
\* latest price, the price 7 rows back and the price 30 rows back.
MaxHistory == 31
BasePrice == 100
PriceLevels == {80, 100, 125}
SnapshotChanges == {-25, 0, 25}

HistoryPrices(n, cur, p7, p30) ==
    [d \in 1..n |->
        [date |-> d,
         price |-> IF d = n THEN cur
                   ELSE IF d = n - Back7 + 1 THEN p7
                   ELSE IF d = n - Back30 + 1 THEN p30
                   ELSE BasePrice]]
Reversed(rows) == [k \in 1..Len(rows) |-> rows[Len(rows) + 1 - k]]

Histories ==
    {[present |-> FALSE, rows |-> <<>>]} \cup
    {[present |-> TRUE, rows |-> r] :
        r \in UNION {{HistoryPrices(n, cur, p7, p30),
                      Reversed(HistoryPrices(n, cur, p7, p30))}
                     : n \in 0..MaxHistory, cur \in PriceLevels,
                       p7 \in PriceLevels, p30 \in PriceLevels}}

MarketSnapshots ==
    {[kind |-> "no_columns"], [kind |-> "rows", has_bitcoin |-> FALSE]}
    \cup {[kind |-> "rows", has_bitcoin |-> TRUE,
           bitcoin |-> [price_change_percentage_7d |-> c7,
                        price_change_percentage_30d |-> c30]]
          : c7 \in SnapshotChanges, c30 \in SnapshotChanges}

RegimeInit ==
    /\ strategies = DEFAULT_STRATEGIES
    /\ last_call = None
    /\ score_call = [result |-> Pending]
    /\ rank_call = [result |-> Pending]
    /\ regime_call \in [market_data : MarketSnapshots,
                         historical_data : [bitcoin : Histories],
                         result : {Pending}]
    /\ NoBacktest
    /\ NoPipeline
    /\ NoFactorCall

AnalyzeMarketCondition ==
    /\ regime_call.result = Pending
    /\ regime_call' = [regime_call EXCEPT !.result =
            analyze_market_condition(regime_call.market_data,
                                     regime_call.historical_data)]
    /\ UNCHANGED <<registryVars, score_call, rank_call, btVars, pipeline, factor_call>>

RegimeNext == AnalyzeMarketCondition

SpecRegime == RegimeInit /\ [][RegimeNext]_vars

(***************************************************************************)
(* BacktestEngine                                                          *)
(***************************************************************************)

\* The matrices of run_backtest are read one date (row) at a time.  A cell
\* is <<v>>, or NaN.  bt_run holds the row of date bt_day of every matrix
\* the code builds, and `since', what ffill has to remember of the rows above.
\* The columns are those of the price matrix the engine was constructed on.
BtAssets == bt_params.columns
Columns == {BtAssets[i] : i \in 1..Len(BtAssets)}
ColumnOf(a) == CHOOSE i \in 1..Len(BtAssets) : BtAssets[i] = a
NaN == <<>>
NaNRow == [a \in Columns |-> NaN]

\* Two rows of a matrix: the row above the current one, and the current one.
\* Above the first row there is nothing: NaNRow.
Window(before, at) == [before |-> before, at |-> at]

\* Prices are drawn from PricePoints; a return is kept in units of
\* 1 / ReturnScale, which every price divides.
PricePoints == {1, 2}
RECURSIVE ProductOf(_)
ProductOf(S) ==
    IF S = {} THEN 1
    ELSE LET k == CHOOSE x \in S : TRUE IN k * ProductOf(S \ {k})
ReturnScale == ProductOf(PricePoints)

\* prices.pct_change(): price / price above - 1
pct_change(w) ==
    [a \in Columns |->
        IF w.before[a] = NaN \/ w.at[a] = NaN THEN NaN
        ELSE <<(ReturnScale * (w.at[a][1] - w.before[a][1])) \div w.before[a][1]>>]

\* positions.shift(1): the row above
MNoShift(w) == w.at
shift(w) == w.before

\* positions.diff().abs(): NaN on the first row, which has no row above
MDiffFromEmpty(w) ==
    [a \in Columns |->
        IF w.at[a] = NaN THEN NaN
        ELSE <<Abs(w.at[a][1] - (IF w.before[a] = NaN THEN 0
                                 ELSE w.before[a][1]))>>]
diff_abs(w) ==
    [a \in Columns |->
        IF w.before[a] = NaN \/ w.at[a] = NaN THEN NaN
        ELSE <<Abs(w.at[a][1] - w.before[a][1])>>]

\* lagged_positions * daily_returns, cell by cell
Times(x, y) ==
    [a \in Columns |->
        IF x[a] = NaN \/ y[a] = NaN THEN NaN ELSE <<x[a][1] * y[a][1]>>]

\* .sum(axis=1): NaN cells are skipped, a row of NaN sums to 0
RECURSIVE RowSum(_, _)
RowSum(row, i) ==
    IF i = 0 THEN 0
    ELSE (IF row[BtAssets[i]] = NaN THEN 0 ELSE row[BtAssets[i]][1])
         + RowSum(row, i - 1)

\* combined_score += factor_matrices[factor_name] * weight, for the factors
\* of the strategy that have a matrix; in units of 1 / strategy.den
RECURSIVE CombinedScore(_, _, _, _)
CombinedScore(strategy, factor_rows, a, i) ==
    IF i = 0 THEN 0
    ELSE LET f == strategy.order[i]
         IN  (IF f \in DOMAIN factor_rows
              THEN strategy.weights[f] * factor_rows[f][a] ELSE 0)
             + CombinedScore(strategy, factor_rows, a, i - 1)

\* day_scores[day_scores.notna()].nlargest(top_n).index: of equal scores the
\* first columns are kept
MNSmallest(scores, top_n) ==
    {a \in Columns :
        Cardinality({b \in Columns :
            \/ scores[b] < scores[a]
            \/ scores[b] = scores[a] /\ ColumnOf(b) < ColumnOf(a)}) < top_n}
nlargest(scores, top_n) ==
    {a \in Columns :
        Cardinality({b \in Columns :
            \/ scores[b] > scores[a]
            \/ scores[b] = scores[a] /\ ColumnOf(b) < ColumnOf(a)}) < top_n}

\* Config.BACKTEST_CONFIG['fee_rate'] = 0.001
FeeRateNum == 1
FeeRateDen == 1000

\* The state before the first row: nothing above, nothing to forward-fill.
BeforeFirstRow(params) ==
    [date |-> -1,
     prices |-> NaNRow,
     daily_returns |-> NaNRow,
     day_scores |-> [a \in Columns |-> 0],
     since |-> [a \in Columns |-> params.rebalance_days],
     positions |-> NaNRow,
     lagged_positions |-> NaNRow,
     strategy_daily_ret |-> 0,
     turnover |-> 0,
     net_strategy_ret |-> 0]

\* Row t of run_backtest, from the rows above (prev), the row of prices and
\* the rows of the factor matrices.  Positions are in units of 1 / top_n,
\* strategy_daily_ret in units of 1 / (top_n * ReturnScale), and
\* net_strategy_ret in units of 1 / (top_n * ReturnScale * FeeRateDen).
BacktestRow(prev, t, params, price_row, factor_rows) ==
    LET strategy == get_strategy(DEFAULT_STRATEGIES, params.strategy_name)
        day_scores == [a \in Columns |->
            CombinedScore(strategy, factor_rows, a, Len(strategy.order))]
        valid_coins == IF t % params.rebalance_days = 0
                       THEN nlargest(day_scores, params.top_n) ELSE {}
        \* .replace(0, nan).ffill(limit=rebalance_days-1).fillna(0): a cell
        \* takes the last set cell above it, when fewer than rebalance_days
        \* rows lie between them
        since == [a \in Columns |->
            IF a \in valid_coins THEN 0
            ELSE IF prev.since[a] + 1 < params.rebalance_days
                 THEN prev.since[a] + 1 ELSE params.rebalance_days]
        positions == [a \in Columns |->
            IF since[a] < params.rebalance_days THEN <<1>> ELSE <<0>>]
        daily_returns == pct_change(Window(prev.prices, price_row))
        lagged_positions == shift(Window(prev.positions, positions))
        strategy_daily_ret ==
            RowSum(Times(lagged_positions, daily_returns), Len(BtAssets))
        turnover ==
            RowSum(diff_abs(Window(prev.positions, positions)), Len(BtAssets))
    IN  [date |-> t,
         prices |-> price_row,
         daily_returns |-> daily_returns,
         day_scores |-> day_scores,
         since |-> since,
         positions |-> positions,
         lagged_positions |-> lagged_positions,
         strategy_daily_ret |-> strategy_daily_ret,
         turnover |-> turnover,
         net_strategy_ret |-> strategy_daily_ret * FeeRateDen
                              - turnover * FeeRateNum * ReturnScale]

\* Model inputs: the arguments of run_backtest and the shape of the price
\* matrix (the date from which each asset has a price; prepare_price_matrix
\* forward-fills, so an asset has no price only before its first observation).
MaxDays == 9
BtStrategies == {"balanced", "short_speculative"}
RebalanceDays == {2, 7}
TopN == {1, 10}
FirstPriced ==
    {[a \in {"bitcoin", "ethereum"} |-> IF a = "ethereum" THEN d ELSE 0] :
        d \in {0, 1}}
BacktestParams ==
    [strategy_name : BtStrategies, rebalance_days : RebalanceDays,
     top_n : TopN, columns : {<<"bitcoin", "ethereum">>},
     first_priced : FirstPriced]

PriceRows(params, t) ==
    {row \in [Columns -> {NaN} \cup {<<p>> : p \in PricePoints}] :
        \A a \in Columns : (row[a] = NaN) <=> (t < params.first_priced[a])}

\* The factor matrices hold cross-sectional z-scores with NaN filled by 0,
\* as calculate_rolling_factors normalises them: with two assets a row is
\* (z, -z) or (-z, z) for z = 1/sqrt(2), or all 0; it is all 0 when an asset
\* has no price.  A cell is kept in units of z.
RollingFactors ==
    {"momentum_30d", "low_volatility", "momentum_7d_bearish", "quality_sharpe"}
ZRows(price_row) ==
    {row \in [Columns -> {-1, 0, 1}] :
        /\ RowSum([a \in Columns |-> <<row[a]>>], Len(BtAssets)) = 0
        /\ (\E a \in Columns : price_row[a] = NaN)
              => \A a \in Columns : row[a] = 0}
\* The rows run_backtest reads: those of the rebalance dates, of the
\* matrices whose factor the strategy weighs.
FactorRows(params, t, price_row) ==
    LET strategy == get_strategy(DEFAULT_STRATEGIES, params.strategy_name)
        read == RollingFactors \cap DOMAIN strategy.weights
    IN  IF t % params.rebalance_days = 0
        THEN [read -> ZRows(price_row)]
        ELSE {[f \in read |-> [a \in Columns |-> 0]]}

BacktestInit ==
    /\ strategies = DEFAULT_STRATEGIES
    /\ last_call = None
    /\ score_call = [result |-> Pending]
    /\ rank_call = [result |-> Pending]
    /\ regime_call = [result |-> Pending]
    /\ bt_params \in BacktestParams
    /\ bt_day = -1
    /\ bt_run = BeforeFirstRow(bt_params)
    /\ bt_alt = None
    /\ bt_pert = [kind |-> "none", day |-> -1, asset |-> "none"]
    /\ NoPipeline
    /\ NoFactorCall

\* run_backtest computes the next date.
BacktestDay ==
    /\ bt_pert.kind = "none"
    /\ bt_day + 1 < MaxDays
    /\ \E price_row \in PriceRows(bt_params, bt_day + 1) :
         \E factor_rows \in FactorRows(bt_params, bt_day + 1, price_row) :
            bt_run' = BacktestRow(bt_run, bt_day + 1, bt_params,
                                  price_row, factor_rows)
    /\ bt_day' = bt_day + 1
    /\ UNCHANGED <<registryVars, score_call, rank_call, regime_call,
                   bt_params, bt_alt, bt_pert, pipeline, factor_call>>

BacktestNext == BacktestDay

SpecBacktest == BacktestInit /\ [][BacktestNext]_vars

\* Two runs of run_backtest with the same arguments, on price matrices that
\* differ in the price of bt_pert.asset on date bt_pert.day and nowhere
\* above; the factor rows of that date are derived from its prices and may
\* differ too.  Both runs are followed up to that date.
MaxPertDay == 4
Perturbations ==
    {[kind |-> "price", day |-> d, asset |-> a] :
        d \in 0..MaxPertDay, a \in Columns}

PairInit ==
    /\ strategies = DEFAULT_STRATEGIES
    /\ last_call = None
    /\ score_call = [result |-> Pending]
    /\ rank_call = [result |-> Pending]
    /\ regime_call = [result |-> Pending]
    /\ bt_params \in BacktestParams
    /\ bt_day = -1
    /\ bt_run = BeforeFirstRow(bt_params)
    /\ bt_alt = BeforeFirstRow(bt_params)
    /\ bt_pert \in {p \in Perturbations :
                        p.day >= bt_params.first_priced[p.asset]}
    /\ NoPipeline
    /\ NoFactorCall

\* A date above the perturbed one: the same rows in both runs.
BacktestDayBoth ==
    /\ bt_pert.kind = "price"
    /\ bt_day + 1 < bt_pert.day
    /\ \E price_row \in PriceRows(bt_params, bt_day + 1) :
         \E factor_rows \in FactorRows(bt_params, bt_day + 1, price_row) :
            /\ bt_run' = BacktestRow(bt_run, bt_day + 1, bt_params,
                                     price_row, factor_rows)
            /\ bt_alt' = BacktestRow(bt_alt, bt_day + 1, bt_params,
                                     price_row, factor_rows)
    /\ bt_day' = bt_day + 1
    /\ UNCHANGED <<registryVars, score_call, rank_call, regime_call,
                   bt_params, bt_pert, pipeline, factor_call>>

\* The perturbed date in the first run.
BacktestDayBase ==
    /\ bt_pert.kind = "price"
    /\ bt_day + 1 = bt_pert.day
    /\ \E price_row \in PriceRows(bt_params, bt_day + 1) :
         \E factor_rows \in FactorRows(bt_params, bt_day + 1, price_row) :
            bt_run' = BacktestRow(bt_run, bt_day + 1, bt_params,
                                  price_row, factor_rows)
    /\ bt_day' = bt_day + 1
    /\ UNCHANGED <<registryVars, score_call, rank_call, regime_call,
                   bt_params, bt_alt, bt_pert, pipeline, factor_call>>

\* The perturbed date in the second run: another price for the asset.
BacktestDayAlt ==
    /\ bt_pert.kind = "price"
    /\ bt_day = bt_pert.day
    /\ bt_alt.date < bt_pert.day
    /\ \E p \in PricePoints \ {bt_run.prices[bt_pert.asset][1]} :
         LET alt_row == [bt_run.prices EXCEPT ![bt_pert.asset] = <<p>>]
         IN  \E alt_factors \in FactorRows(bt_params, bt_day, alt_row) :
                bt_alt' = BacktestRow(bt_alt, bt_day, bt_params,
                                      alt_row, alt_factors)
    /\ UNCHANGED <<registryVars, score_call, rank_call, regime_call,
                   bt_params, bt_day, bt_run, bt_pert, pipeline, factor_call>>

PairNext == BacktestDayBoth \/ BacktestDayBase \/ BacktestDayAlt

SpecBacktestPair == PairInit /\ [][PairNext]_vars

(***************************************************************************)
(* BacktestEngine.run_backtest, from the first date to the statistics      *)
(***************************************************************************)

\* The rows of every matrix of run_backtest for the dates 1..t of the price
\* matrix `prices', a sequence of rows.
RECURSIVE RowsUpTo(_, _, _, _)
RowsUpTo(params, prices, factor_rows, t) ==
    IF t = 0 THEN <<>>
    ELSE LET above == RowsUpTo(params, prices, factor_rows, t - 1)
             prev == IF t = 1 THEN BeforeFirstRow(params) ELSE above[t - 1]
         IN  Append(above,
                    BacktestRow(prev, t - 1, params, prices[t], factor_rows))

IndexError == [outcome |-> "raise", error |-> "IndexError"]

FracMul(a, b) ==
    LET g == GCD(Abs(a.num), b.den)
        h == GCD(Abs(b.num), a.den)
    IN  Frac((a.num \div g) * (b.num \div h), (a.den \div h) * (b.den \div g))

\* equity = (1 + strategy_ret).cumprod(), up to date t
RECURSIVE cumprod(_, _, _)
cumprod(rows, unit, t) ==
    IF t = 0 THEN <<>>
    ELSE LET above == cumprod(rows, unit, t - 1)
             growth == Frac(unit + rows[t].net_strategy_ret, unit)
         IN  Append(above, IF t = 1 THEN growth
                           ELSE FracMul(above[t - 1], growth))

\* _calculate_stats(strategy_ret, benchmark_ret): equity.iloc[-1] is an
\* IndexError on a series of no date.  Of the statistics, the equity curve
\* and total_return are kept.
calculate_stats(rows, unit) ==
    LET equity == cumprod(rows, unit, Len(rows))
    IN  IF Len(equity) = 0 THEN IndexError
        ELSE [outcome |-> "stats",
              rows |-> rows,
              equity_curve |-> equity,
              total_return |-> Frac(equity[Len(equity)].num
                                    - equity[Len(equity)].den,
                                    equity[Len(equity)].den)]

\* run_backtest on the price matrix `prices'.  The benchmark column is
\* 'bitcoin', or else daily_returns.columns[0]: an IndexError on a matrix of
\* no column.
run_backtest(params, prices, factor_rows) ==
    LET rows == RowsUpTo(params, prices, factor_rows, Len(prices))
    IN  IF Len(params.columns) = 0 THEN IndexError
        ELSE calculate_stats(rows,
                 params.top_n * ReturnScale * FeeRateDen)

----
\* The runs of the model: price matrices of no, one or two assets and of up
\* to MaxRunDays dates, every asset priced from the first date.  The factor
\* matrices are those calculate_rolling_factors gives on so short a history:
\* all 0, a constant score.
MaxRunDays == 3
RunColumns == {<<>>, <<"bitcoin">>, <<"bitcoin", "ethereum">>}
RunParams ==
    {[strategy_name |-> s, rebalance_days |-> r, top_n |-> n, columns |-> c,
      first_priced |-> [a \in {c[i] : i \in 1..Len(c)} |-> 0]] :
        s \in BtStrategies, r \in RebalanceDays, n \in TopN, c \in RunColumns}
PriceMatrices(params) ==
    UNION {[1..n -> PriceRows(params, 0)] : n \in 0..MaxRunDays}
ZeroFactorRows(params) ==
    LET strategy == get_strategy(DEFAULT_STRATEGIES, params.strategy_name)
    IN  [f \in RollingFactors \cap DOMAIN strategy.weights |->
            [a \in Columns |-> 0]]

RunInit ==
    /\ strategies = DEFAULT_STRATEGIES
    /\ last_call = None
    /\ score_call = [result |-> Pending]
    /\ rank_call = [result |-> Pending]
    /\ regime_call = [result |-> Pending]
    /\ NoPipeline
    /\ NoFactorCall
    /\ bt_params \in RunParams
    /\ bt_day = -1
    /\ bt_run \in [prices : PriceMatrices(bt_params), result : {Pending}]
    /\ bt_alt = None
    /\ bt_pert = [kind |-> "run", day |-> -1, asset |-> "none"]

RunBacktest ==
    /\ bt_pert.kind = "run"
    /\ bt_run.result = Pending
    /\ bt_run' = [bt_run EXCEPT !.result =
            run_backtest(bt_params, bt_run.prices, ZeroFactorRows(bt_params))]
    /\ bt_day' = Len(bt_run.prices) - 1
    /\ UNCHANGED <<registryVars, score_call, rank_call, regime_call,
                   bt_params, bt_alt, bt_pert, pipeline, factor_call>>

RunNext == RunBacktest

SpecBacktestRun == RunInit /\ [][RunNext]_vars

----
\* StrategyOptimizer._quick_backtest next to run_backtest, date by date on
\* the same prices and the same combined scores.
\* rebalance_idx = combined_score.index[::7]; day_scores.nlargest(5); 0.2
QuickRebalance == 7
QuickTopN == 5

\* Row t of _quick_backtest.  positions starts as a frame of zeros and gets
\* 0.2 at the top coins of a rebalance date; it holds no NaN, so
\* positions.ffill().fillna(0) changes no cell.  Positions are in units of
\* 1 / QuickTopN.
quick_backtest_row(prev, t, price_row, day_scores) ==
    LET top_coins == IF t % QuickRebalance = 0
                     THEN nlargest(day_scores, QuickTopN) ELSE {}
        positions == [a \in Columns |->
                        IF a \in top_coins THEN <<1>> ELSE <<0>>]
        daily_returns == pct_change(Window(prev.prices, price_row))
        lagged_pos == shift(Window(prev.positions, positions))
    IN  [date |-> t,
         prices |-> price_row,
         day_scores |-> day_scores,
         positions |-> positions,
         lagged_pos |-> lagged_pos,
         strat_ret |-> RowSum(Times(lagged_pos, daily_returns), Len(BtAssets))]

QuickParams ==
    [strategy_name : {"balanced"}, rebalance_days : {QuickRebalance},
     top_n : {QuickTopN}, columns : {<<"bitcoin", "ethereum">>},
     first_priced : FirstPriced]

QuickInit ==
    /\ strategies = DEFAULT_STRATEGIES
    /\ last_call = None
    /\ score_call = [result |-> Pending]
    /\ rank_call = [result |-> Pending]
    /\ regime_call = [result |-> Pending]
    /\ NoPipeline
    /\ NoFactorCall
    /\ bt_params \in QuickParams
    /\ bt_day = -1
    /\ bt_run = BeforeFirstRow(bt_params)
    /\ bt_alt = [date |-> -1, prices |-> NaNRow,
                 day_scores |-> [a \in Columns |-> 0], positions |-> NaNRow,
                 lagged_pos |-> NaNRow, strat_ret |-> 0]
    /\ bt_pert = [kind |-> "quick", day |-> -1, asset |-> "none"]

\* Both backtests compute the next date.
QuickBacktestDay ==
    /\ bt_pert.kind = "quick"
    /\ bt_day + 1 < MaxDays
    /\ \E price_row \in PriceRows(bt_params, bt_day + 1) :
         \E factor_rows \in FactorRows(bt_params, bt_day + 1, price_row) :
            LET row == BacktestRow(bt_run, bt_day + 1, bt_params,
                                   price_row, factor_rows)
            IN  /\ bt_run' = row
                /\ bt_alt' = quick_backtest_row(bt_alt, bt_day + 1, price_row,
                                                row.day_scores)
    /\ bt_day' = bt_day + 1
    /\ UNCHANGED <<registryVars, score_call, rank_call, regime_call,
                   bt_params, bt_pert, pipeline, factor_call>>

QuickNext == QuickBacktestDay

SpecQuickBacktest == QuickInit /\ [][QuickNext]_vars

----
\* The weights of run_backtest next to those of the pipeline.  The pipeline
\* scores with self.strategy_loader, which has loaded config/strategies.yaml
\* (the variable strategies); run_backtest makes a loader of its own,
\* loader = StrategyLoader(), with no document.
BacktestStrategy(strategy_name) == get_strategy(DEFAULT_STRATEGIES, strategy_name)

\* One row of combined_score, in units of 1 / den.
combined_score(strategy_name, factor_rows) ==
    LET strategy == BacktestStrategy(strategy_name)
    IN  [den |-> strategy.den,
         scores |-> [a \in Columns |->
            CombinedScore(strategy, factor_rows, a, Len(strategy.order))]]

\* A backtest of a strategy that the pipeline's loader has registered, on a
\* date on which both assets are priced.
WeightsParams ==
    [strategy_name : QueryNames, rebalance_days : {7}, top_n : {10},
     columns : {<<"bitcoin", "ethereum">>},
     first_priced : {[a \in {"bitcoin", "ethereum"} |-> 0]}]

WeightsInit ==
    /\ strategies \in LoadedRegistries
    /\ last_call = None
    /\ score_call = [result |-> Pending]
    /\ rank_call = [result |-> Pending]
    /\ regime_call = [result |-> Pending]
    /\ NoPipeline
    /\ NoFactorCall
    /\ bt_params \in WeightsParams
    /\ bt_params.strategy_name \in DOMAIN strategies
    /\ bt_day = -1
    /\ bt_run \in [factor_rows : [RollingFactors -> ZRows([a \in Columns |-> <<1>>])],
                   result : {Pending}]
    /\ bt_alt = None
    /\ bt_pert = [kind |-> "weights", day |-> -1, asset |-> "none"]

CombineScores ==
    /\ bt_pert.kind = "weights"
    /\ bt_run.result = Pending
    /\ bt_run' = [bt_run EXCEPT !.result =
            combined_score(bt_params.strategy_name, bt_run.factor_rows)]
    /\ bt_day' = 0
    /\ UNCHANGED <<registryVars, score_call, rank_call, regime_call,
                   bt_params, bt_alt, bt_pert, pipeline, factor_call>>

WeightsNext == CombineScores

SpecBacktestWeights == WeightsInit /\ [][WeightsNext]_vars

(***************************************************************************)
(* CryptoAladdinPipeline.run_full_pipeline                                 *)
(***************************************************************************)

\* Binding positional arguments to the parameters of a function that has no
\* *args: more arguments than parameters is a TypeError, raised before the
\* body runs.
TypeError == [outcome |-> "raise", error |-> "TypeError"]
BindPositional(n_params, n_args, returned) ==
    IF n_args > n_params THEN TypeError ELSE returned

\* analyze_market_condition is a staticmethod of two parameters; the
\* pipeline passes market_data, historical_data and fng_data.
AnalyzeParams == 2
AnalyzeArgs == 3

\* The benchmark history the pipeline finds (from the API, or the 90 days of
\* the database): none, or MinHistory rows.
PipelineHistories ==
    {h \in Histories : Len(h.rows) \in {0, MinHistory}}

PipelineInit ==
    /\ strategies = DEFAULT_STRATEGIES
    /\ last_call = None
    /\ score_call = [result |-> Pending]
    /\ rank_call = [result |-> Pending]
    /\ regime_call = [result |-> Pending]
    /\ NoBacktest
    /\ NoFactorCall
    /\ pipeline \in [pc : {"collect"},
                     use_existing_data : BOOLEAN,
                     metrics_empty : BOOLEAN,
                     market_data : MarketSnapshots,
                     historical_data : [bitcoin : PipelineHistories],
                     steps : {<<>>},
                     market_regime : {Pending},
                     long_strat : {"unset"}]

\* Block 1: the data are collected, or read from the database.  Without
\* market data or metrics the run returns.
CollectData ==
    /\ pipeline.pc = "collect"
    /\ pipeline' = [pipeline EXCEPT
            !.pc = IF pipeline.metrics_empty THEN "returned" ELSE "factors",
            !.steps = Append(@, "collect")]
    /\ UNCHANGED <<registryVars, score_call, rank_call, regime_call, btVars, factor_call>>

\* Block 2.1 and 2.2: full_data is merged and the factors are computed.
CalculateFactors ==
    /\ pipeline.pc = "factors"
    /\ pipeline' = [pipeline EXCEPT !.pc = "regime",
                                    !.steps = Append(@, "factors")]
    /\ UNCHANGED <<registryVars, score_call, rank_call, regime_call, btVars, factor_call>>

\* Block 2.3 to 2.6: the regime is detected, and when the call returns the
\* custom strategies are loaded, the two score tables are computed with the
\* suggested strategy as the long one and the ranking is built.  An
\* exception ends the run in the except clause of run_full_pipeline.
DetectRegimeAndScore ==
    /\ pipeline.pc = "regime"
    /\ LET market_regime ==
               BindPositional(AnalyzeParams, AnalyzeArgs,
                   analyze_market_condition(pipeline.market_data,
                                            pipeline.historical_data))
       IN  pipeline' =
             IF market_regime = TypeError
             THEN [pipeline EXCEPT !.pc = "returned",
                                   !.steps = Append(@, "regime"),
                                   !.market_regime = market_regime]
             ELSE [pipeline EXCEPT !.pc = "report",
                                   !.steps = @ \o <<"regime", "dual_scores",
                                                    "combined_ranking">>,
                                   !.market_regime = market_regime,
                                   !.long_strat =
                                        market_regime.suggested_strategy]
    /\ UNCHANGED <<registryVars, score_call, rank_call, regime_call, btVars, factor_call>>

PipelineNext == CollectData \/ CalculateFactors \/ DetectRegimeAndScore

SpecPipeline == PipelineInit /\ [][PipelineNext]_vars

(***************************************************************************)
(* FactorCalculator: normalisation                                         *)
(***************************************************************************)

\* A series, or a row of a frame, is a sequence of cells: <<v>> or NaN.  A
\* z-score z is kept as its sign and its square, a fraction:
\* <<[sign |-> -1, 0 or 1, sq |-> z * z]>>.
Present(series) == {i \in 1..Len(series) : series[i] # NaN}
ZNumber(sign, sq) == <<[sign |-> sign, sq |-> sq]>>
ZZero == ZNumber(0, Frac(0, 1))
Sign(x) == IF x > 0 THEN 1 ELSE IF x < 0 THEN -1 ELSE 0

RECURSIVE SumCells(_, _)
SumCells(values, S) ==
    IF S = {} THEN 0
    ELSE LET i == CHOOSE x \in S : TRUE
         IN  values[i] + SumCells(values, S \ {i})

\* The k-th smallest of the cells of `values' at the positions S.
KthSmallest(values, S, k) ==
    LET rank(i) == 1 + Cardinality({j \in S :
                        \/ values[j] < values[i]
                        \/ values[j] = values[i] /\ j < i})
    IN  values[CHOOSE i \in S : rank(i) = k]

\* series.median(), doubled: NaN cells are skipped
Median2(series) ==
    LET P == Present(series)
        n == Cardinality(P)
        v == [i \in P |-> series[i][1]]
    IN  IF n % 2 = 1 THEN 2 * KthSmallest(v, P, (n + 1) \div 2)
        ELSE KthSmallest(v, P, n \div 2) + KthSmallest(v, P, n \div 2 + 1)

\* _winsorize_series(series, limits=(0.01, 0.01)), doubled:
\* winsorize(series.fillna(series.median())) sets the int(0.01 * n) lowest
\* and highest values to the nearest value that is left.
WinsorPerCent == 1
winsorize_series(series) ==
    LET n == Len(series)
        all == 1..n
        clean == [i \in all |->
                    IF series[i] = NaN THEN Median2(series) ELSE 2 * series[i][1]]
        k == (WinsorPerCent * n) \div 100
        low == KthSmallest(clean, all, k + 1)
        high == KthSmallest(clean, all, n - k)
    IN  [i \in all |-> IF clean[i] < low THEN low
                       ELSE IF clean[i] > high THEN high ELSE clean[i]]

\* .clip(-clip_range, clip_range) of a cell; a NaN cell stays NaN
ClipRange == 3
MNoClip(cell, clip_range) == cell
clip(cell, clip_range) ==
    IF cell = NaN THEN NaN
    ELSE IF cell[1].sq.num > clip_range * clip_range * cell[1].sq.den
         THEN ZNumber(cell[1].sign, Frac(clip_range * clip_range, 1))
         ELSE cell

\* The z-scores of the cells of `values' at the positions S, for a standard
\* deviation of ddof degrees of freedom less: with n cells of sum s, and
\* d[i] = n * values[i] - s, the square of z[i] is
\* d[i]^2 * (n - ddof) / sum of d^2.  NaN when n <= ddof (no deviation) and
\* when all cells are equal (0 / 0, or what stats.zscore answers for a
\* constant input).
ZScores(values, S, ddof) ==
    LET n == Cardinality(S)
        s == SumCells(values, S)
        d == [i \in S |-> n * values[i] - s]
        q == SumCells([i \in S |-> d[i] * d[i]], S)
    IN  [i \in S |->
            IF n <= ddof \/ q = 0 THEN NaN
            ELSE ZNumber(Sign(d[i]), Frac(d[i] * d[i] * (n - ddof), q))]

\* calculate_zscore_factor(series, reverse)
calculate_zscore_factor(series, reverse) ==
    IF Len(series) = 0 \/ Present(series) = {}
    THEN [i \in 1..Len(series) |-> ZZero]
    ELSE LET series_win == winsorize_series(series)
             zscore == ZScores(series_win, 1..Len(series), 0)
             \* np.nan_to_num
             num == [i \in 1..Len(series) |->
                        IF zscore[i] = NaN THEN ZZero ELSE zscore[i]]
             zscore_series == [i \in 1..Len(series) |->
                        IF reverse
                        THEN ZNumber(-num[i][1].sign, num[i][1].sq)
                        ELSE num[i]]
         IN  [i \in 1..Len(series) |-> clip(zscore_series[i], ClipRange)]

\* The normalisation of calculate_rolling_factors, on one date (row):
\* df.sub(mean, axis=0).div(std, axis=0), .clip(-3, 3), .fillna(0); mean and
\* std skip the NaN cells, std is the sample deviation (ddof = 1).
rolling_zscore_row(row) ==
    LET S == Present(row)
        zscore == ZScores([i \in S |-> row[i][1]], S, 1)
        clipped == [i \in 1..Len(row) |->
                      IF i \in S THEN clip(zscore[i], ClipRange) ELSE NaN]
    IN  [i \in 1..Len(row) |-> IF clipped[i] = NaN THEN ZZero ELSE clipped[i]]

----
\* The series of the model: up to MaxSeries cells, each NaN or one of three
\* values, in ascending order with the NaN cells last.
MaxSeries == 11
SeriesValues == <<0, 1, 3>>
SeriesOf(c) ==
    [i \in 1..(c[1] + c[2] + c[3] + c[4]) |->
        IF i <= c[1] THEN <<SeriesValues[1]>>
        ELSE IF i <= c[1] + c[2] THEN <<SeriesValues[2]>>
        ELSE IF i <= c[1] + c[2] + c[3] THEN <<SeriesValues[3]>>
        ELSE NaN]
SeriesSet ==
    {SeriesOf(c) : c \in {x \in [1..4 -> 0..MaxSeries] :
                            x[1] + x[2] + x[3] + x[4] <= MaxSeries}}

NormaliseInit ==
    /\ strategies = DEFAULT_STRATEGIES
    /\ last_call = None
    /\ score_call = [result |-> Pending]
    /\ rank_call = [result |-> Pending]
    /\ regime_call = [result |-> Pending]
    /\ NoBacktest
    /\ NoPipeline
    /\ factor_call \in [fn : {"calculate_zscore_factor", "calculate_rolling_factors"},
                        series : SeriesSet,
                        reverse : BOOLEAN,
                        result : {Pending}]
    /\ factor_call.fn = "calculate_rolling_factors" => ~factor_call.reverse

CalculateZscoreFactor ==
    /\ factor_call.result = Pending
    /\ factor_call.fn = "calculate_zscore_factor"
    /\ factor_call' = [factor_call EXCEPT !.result =
            [outcome |-> "series",
             cells |-> calculate_zscore_factor(factor_call.series,
                                               factor_call.reverse)]]
    /\ UNCHANGED <<registryVars, score_call, rank_call, regime_call, btVars,
                   pipeline>>

NormaliseRollingRow ==
    /\ factor_call.result = Pending
    /\ factor_call.fn = "calculate_rolling_factors"
    /\ factor_call' = [factor_call EXCEPT !.result =
            [outcome |-> "series",
             cells |-> rolling_zscore_row(factor_call.series)]]
    /\ UNCHANGED <<registryVars, score_call, rank_call, regime_call, btVars,
                   pipeline>>

NormaliseNext == CalculateZscoreFactor \/ NormaliseRollingRow

SpecNormalise == NormaliseInit /\ [][NormaliseNext]_vars

----
\* The normalisation of calculate_rolling_factors on a whole factor frame
\* (one row a date, one cell an asset): mean and std are taken along axis 1
\* and subtracted and divided along axis 0, so each date is normalised over
\* its own row.
MNormaliseOverDates(df) ==
    [t \in 1..Len(df) |->
        [i \in 1..Len(df[t]) |->
            rolling_zscore_row([k \in 1..Len(df) |-> df[k][i]])[t]]]
normalise_frame(df) == [t \in 1..Len(df) |-> rolling_zscore_row(df[t])]

\* Two factor frames over the same two dates and three assets that differ in
\* one cell, and a date `day' other than the date of that cell.  A raw
\* factor value is a number of 0..MaxFactorValue or NaN.
MaxFactorValue == 1
FrameIndex == <<"2024-01-01", "2024-01-02">>
FrameColumns == SubSeq(CoinIds, 1, 3)
FrameCells == {NaN} \cup {<<v>> : v \in 0..MaxFactorValue}
FactorFrames == [DOMAIN FrameIndex -> [DOMAIN FrameColumns -> FrameCells]]
FramePairs ==
    {[fn |-> "normalise_frames", df |-> df,
      alt |-> [df EXCEPT ![d][i] = cell], day |-> day, result |-> Pending]
        : df \in FactorFrames,
          d \in DOMAIN FrameIndex, i \in DOMAIN FrameColumns, cell \in FrameCells,
          day \in DOMAIN FrameIndex}

FramePairInit ==
    /\ strategies = DEFAULT_STRATEGIES
    /\ last_call = None
    /\ score_call = [result |-> Pending]
    /\ rank_call = [result |-> Pending]
    /\ regime_call = [result |-> Pending]
    /\ NoBacktest
    /\ NoPipeline
    /\ factor_call \in FramePairs
    /\ factor_call.df[factor_call.day] = factor_call.alt[factor_call.day]
    /\ factor_call.df # factor_call.alt

NormaliseFrames ==
    /\ factor_call.result = Pending
    /\ factor_call.fn = "normalise_frames"
    /\ factor_call' = [factor_call EXCEPT !.result =
            [outcome |-> "frames",
             base |-> normalise_frame(factor_call.df),
             alt |-> normalise_frame(factor_call.alt)]]
    /\ UNCHANGED <<registryVars, score_call, rank_call, regime_call, btVars,
                   pipeline>>

FramePairNext == NormaliseFrames

SpecNormalisePair == FramePairInit /\ [][FramePairNext]_vars

(***************************************************************************)
(* FactorCalculator.calculate_rolling_factors: from prices to factors      *)
(***************************************************************************)

\* The price matrix is a sequence of rows, one a date, each a sequence of
\* cells, one an asset.  Returns are in units of 1 / ReturnScale.
MomentumDays == 30
VolatilityDays == 30
ReversalDays == 7

\* price_matrix.pct_change(n), at row t and column i
pct_change_n(pm, n, t, i) ==
    IF t <= n THEN NaN
    ELSE IF pm[t][i] = NaN \/ pm[t - n][i] = NaN THEN NaN
    ELSE <<(ReturnScale * (pm[t][i][1] - pm[t - n][i][1])) \div pm[t - n][i][1]>>

\* log_ret = np.log(price_matrix / price_matrix.shift(1)): the logarithm is
\* irrational, the cell keeps the ratio it is taken of.
MLogRetAhead(pm, t, i) ==
    IF t >= Len(pm) THEN NaN
    ELSE IF pm[t][i] = NaN \/ pm[t + 1][i] = NaN THEN NaN
    ELSE <<Frac(pm[t + 1][i][1], pm[t][i][1])>>
log_ret(pm, t, i) ==
    IF t <= 1 THEN NaN
    ELSE IF pm[t][i] = NaN \/ pm[t - 1][i] = NaN THEN NaN
    ELSE <<Frac(pm[t][i][1], pm[t - 1][i][1])>>

\* log_ret.rolling(30).std(): NaN unless the 30 rows that end in row t all
\* hold a number; the deviation is kept as the window it is a function of.
rolling_std(pm, t, i) ==
    IF t < VolatilityDays THEN NaN
    ELSE LET window == [k \in 1..VolatilityDays |->
                            log_ret(pm, t - VolatilityDays + k, i)]
         IN  IF \E k \in 1..VolatilityDays : window[k] = NaN THEN NaN
             ELSE <<window>>

\* A window of equal log returns has deviation 0.
IsConstant(window) == \A k \in 1..Len(window) : window[k] = window[1]

\* The cell of a factor matrix before normalisation.  The two momentum
\* factors are numbers; the volatility and the Sharpe quotient are kept as
\* the numbers and windows they are functions of.
raw_factor(name, pm, t, i) ==
    LET momentum == pct_change_n(pm, MomentumDays, t, i)
        reversal == pct_change_n(pm, ReversalDays, t, i)
        vol == rolling_std(pm, t, i)
    IN  CASE name = "momentum_30d" -> momentum
          [] name = "momentum_7d_bearish" ->
                IF reversal = NaN THEN NaN ELSE <<-reversal[1]>>
          [] name = "low_volatility" ->
                IF vol = NaN THEN NaN ELSE <<[minus_std_of |-> vol[1]]>>
          \* factors['momentum_30d'] / vol.replace(0, np.nan)
          [] OTHER ->
                IF momentum = NaN \/ vol = NaN THEN NaN
                ELSE IF IsConstant(vol[1]) THEN NaN
                ELSE <<[momentum |-> momentum[1], std_of |-> vol[1]]>>

\* The normalisation of a row whose cells are not kept as numbers: a NaN
\* cell, and every cell of a row with fewer than two numbers or with equal
\* numbers only, becomes 0; any other cell is a function of its row.
zscore_of_row(row) ==
    LET S == Present(row)
    IN  [i \in 1..Len(row) |->
            IF i \notin S \/ Cardinality(S) < 2
               \/ (\A j, k \in S : row[j] = row[k])
            THEN ZZero
            ELSE <<[zscore_of |-> row, at |-> i]>>]

\* calculate_rolling_factors(price_matrix): the four normalised matrices
calculate_rolling_factors(pm) ==
    [name \in RollingFactors |->
        [t \in 1..Len(pm) |->
            LET row == [i \in 1..Len(pm[t]) |-> raw_factor(name, pm, t, i)]
            IN  IF name \in {"momentum_30d", "momentum_7d_bearish"}
                THEN rolling_zscore_row(row)
                ELSE zscore_of_row(row)]]

----
\* Two price matrices of two assets and MaxFactorDates dates that are equal
\* on the dates 1..day and differ in one price of date day + 1.  A price is
\* 2 on the marked dates of its asset and 1 elsewhere; the second asset may
\* have no price on the first date.
MaxFactorDates == 32
MarkedDates == {1, 24, 31}
RollingColumns == <<"bitcoin", "ethereum">>
MarkedPrices(marks, first) ==
    [t \in 1..MaxFactorDates |->
        [i \in DOMAIN RollingColumns |->
            IF i = 2 /\ t < first THEN NaN
            ELSE IF t \in marks[i] THEN <<2>> ELSE <<1>>]]
OtherPrice(cell) == <<CHOOSE q \in PricePoints : q # cell[1]>>
PricePairs ==
    {[fn |-> "rolling_factors", prices |-> MarkedPrices(marks, first),
      alt |-> [MarkedPrices(marks, first) EXCEPT
                  ![d][i] = OtherPrice(MarkedPrices(marks, first)[d][i])],
      day |-> d - 1, result |-> Pending]
        : marks \in [DOMAIN RollingColumns -> SUBSET MarkedDates],
          first \in 1..2, d \in 2..MaxFactorDates, i \in DOMAIN RollingColumns}

RollingInit ==
    /\ strategies = DEFAULT_STRATEGIES
    /\ last_call = None
    /\ score_call = [result |-> Pending]
    /\ rank_call = [result |-> Pending]
    /\ regime_call = [result |-> Pending]
    /\ NoBacktest
    /\ NoPipeline
    /\ factor_call \in PricePairs

CalculateRollingFactors ==
    /\ factor_call.result = Pending
    /\ factor_call.fn = "rolling_factors"
    /\ factor_call' = [factor_call EXCEPT !.result =
            [outcome |-> "factors",
             base |-> calculate_rolling_factors(factor_call.prices),
             alt |-> calculate_rolling_factors(factor_call.alt)]]
    /\ UNCHANGED <<registryVars, score_call, rank_call, regime_call, btVars,
                   pipeline>>

RollingNext == CalculateRollingFactors

SpecRollingFactors == RollingInit /\ [][RollingNext]_vars

(***************************************************************************)
(* FactorCalculator.prepare_price_matrix                                   *)
(***************************************************************************)

\* The date column holds text; pd.to_datetime turns it into a timestamp,
\* here the number of the day.
DateTexts == <<"2024-01-01", "2024-01-02", "2024-01-03">>
to_datetime(text) == CHOOSE d \in 1..Len(DateTexts) : DateTexts[d] = text

\* temp[~temp.index.duplicated(keep='first')]: of the rows of one date the
\* first stays.
MLastOccurrence(rows, i) ==
    \A j \in 1..Len(rows) : rows[j].date = rows[i].date => j <= i
FirstOccurrence(rows, i) ==
    \A j \in 1..Len(rows) : rows[j].date = rows[i].date => j >= i

\* A matrix: its index, its columns and one row (column -> cell) per entry
\* of the index.  pd.DataFrame() has none of them.
Matrix(index, columns, rows) ==
    [outcome |-> "matrix", index |-> index, columns |-> columns, rows |-> rows]
EmptyMatrix == Matrix(<<>>, <<>>, <<>>)

\* The elements of a set of numbers in ascending order: sort_index()
RECURSIVE Ascending(_)
Ascending(S) ==
    IF S = {} THEN <<>>
    ELSE <<SetMin(S)>> \o Ascending(S \ {SetMin(S)})

\* The elements of the sequence seq that are in the set kept, in their order.
RECURSIVE SelectIds(_, _)
SelectIds(seq, kept) ==
    IF seq = <<>> THEN <<>>
    ELSE (IF Head(seq) \in kept THEN <<Head(seq)>> ELSE <<>>)
         \o SelectIds(Tail(seq), kept)

\* .ffill() down the rows: a NaN cell takes the cell above it.
RECURSIVE ffill(_, _, _)
ffill(rows, columns, k) ==
    IF k = 0 THEN <<>>
    ELSE LET above == ffill(rows, columns, k - 1)
         IN  Append(above,
                [c \in columns |->
                    IF rows[k][c] = NaN /\ k > 1 THEN above[k - 1][c]
                    ELSE rows[k][c]])

\* prepare_price_matrix(historical_data).  historical_data maps a coin to
\* [present |-> whether the dict has the coin, has_price |-> whether its
\* frame has a 'price' column, rows |-> the rows [date, price] of the frame];
\* the keys are met in the order of CoinIds.
prepare_price_matrix(historical_data) ==
    LET coins == {c \in DOMAIN historical_data : historical_data[c].present}
        listed == {c \in coins : /\ Len(historical_data[c].rows) > 0
                                 /\ historical_data[c].has_price}
        temp(c) ==
            LET rows == [i \in 1..Len(historical_data[c].rows) |->
                            [date |-> to_datetime(historical_data[c].rows[i].date),
                             price |-> historical_data[c].rows[i].price]]
                kept == {i \in 1..Len(rows) : FirstOccurrence(rows, i)}
            IN  [d \in {rows[i].date : i \in kept} |->
                    rows[CHOOSE i \in kept : rows[i].date = d].price]
        columns == SelectIds(CoinIds, listed)
        index == Ascending(UNION {DOMAIN temp(c) : c \in listed})
        concat == [k \in 1..Len(index) |->
                     [c \in listed |->
                         IF index[k] \in DOMAIN temp(c)
                         THEN <<temp(c)[index[k]]>> ELSE NaN]]
    IN  IF coins = {} \/ listed = {} THEN EmptyMatrix
        ELSE Matrix(index, columns, ffill(concat, listed, Len(index)))

----
\* The histories of the model: two coins, each absent, without a price
\* column, or with up to MaxObservations rows in any order of dates.
MaxObservations == 2
MatrixCoins == {"bitcoin", "ethereum"}
ObservedPrices == {1, 2}
ObservationRows ==
    UNION {[1..n -> [date : {DateTexts[d] : d \in 1..Len(DateTexts)},
                     price : ObservedPrices]] : n \in 0..MaxObservations}
Frames ==
    {[present |-> FALSE, has_price |-> FALSE, rows |-> <<>>]}
    \cup [present : {TRUE}, has_price : {TRUE}, rows : ObservationRows]
    \cup [present : {TRUE}, has_price : {FALSE},
          rows : {r \in ObservationRows : Len(r) = 1}]

PriceMatrixInit ==
    /\ strategies = DEFAULT_STRATEGIES
    /\ last_call = None
    /\ score_call = [result |-> Pending]
    /\ rank_call = [result |-> Pending]
    /\ regime_call = [result |-> Pending]
    /\ NoBacktest
    /\ NoPipeline
    /\ factor_call \in [fn : {"prepare_price_matrix"},
                        historical_data : [MatrixCoins -> Frames],
                        result : {Pending}]

PreparePriceMatrix ==
    /\ factor_call.result = Pending
    /\ factor_call.fn = "prepare_price_matrix"
    /\ factor_call' = [factor_call EXCEPT !.result =
            prepare_price_matrix(factor_call.historical_data)]
    /\ UNCHANGED <<registryVars, score_call, rank_call, regime_call, btVars,
                   pipeline>>

PriceMatrixNext == PreparePriceMatrix

SpecPriceMatrix == PriceMatrixInit /\ [][PriceMatrixNext]_vars

(***************************************************************************)
(* Claims about BacktestEngine                                             *)
(***************************************************************************)

\* The position of asset a on a row of positions, or of lagged positions,
\* times its return on a row of returns; 0 where either cell is NaN.
Earned(position_row, return_row, a) ==
    IF position_row[a] = NaN \/ return_row[a] = NaN THEN 0
    ELSE position_row[a][1] * return_row[a][1]

RECURSIVE EarnedBy(_, _, _)
EarnedBy(position_row, return_row, S) ==
    IF S = {} THEN 0
    ELSE LET a == CHOOSE x \in S : TRUE
         IN  Earned(position_row, return_row, a)
             + EarnedBy(position_row, return_row, S \ {a})

\* C1, as stated: for two price matrices that differ only in the price of
\* one asset on one date T, the net strategy return of every date up to and
\* including T is the same in both runs.
C1_ReturnOfPerturbedDateUnchanged ==
    (bt_pert.kind = "price" /\ bt_alt.date = bt_run.date)
        => bt_alt.net_strategy_ret = bt_run.net_strategy_ret

\* C1, amended: for two price matrices that differ only in the price of one
\* asset a on one date T, every column of the two runs is identical on the
\* dates before T; on date T the lagged positions, which earn the return of
\* T, are identical, the daily returns of the other assets are identical,
\* and the gross return differs by exactly lagged_position[a] times the
\* change of a's daily return on T; positions and turnover of T are
\* identical unless T is a rebalance date.  So the net return of T is
\* identical when a was not held on T-1 and T is no rebalance date, and
\* differs otherwise.
C1_PerturbedPriceReachesOnlyItsOwnReturn ==
    (bt_pert.kind = "price" /\ bt_alt.date = bt_run.date) =>
        /\ bt_run.date < bt_pert.day => bt_alt = bt_run
        /\ bt_run.date = bt_pert.day =>
              /\ bt_alt.lagged_positions = bt_run.lagged_positions
              /\ \A a \in Columns \ {bt_pert.asset} :
                    bt_alt.daily_returns[a] = bt_run.daily_returns[a]
              /\ bt_alt.strategy_daily_ret - bt_run.strategy_daily_ret
                    = Earned(bt_run.lagged_positions, bt_alt.daily_returns,
                             bt_pert.asset)
                      - Earned(bt_run.lagged_positions, bt_run.daily_returns,
                               bt_pert.asset)
              /\ bt_pert.day % bt_params.rebalance_days # 0 =>
                    /\ bt_alt.positions = bt_run.positions
                    /\ bt_alt.turnover = bt_run.turnover
              /\ (/\ bt_pert.day % bt_params.rebalance_days # 0
                  /\ bt_run.lagged_positions[bt_pert.asset] # <<1>>)
                    => bt_alt.net_strategy_ret = bt_run.net_strategy_ret

\* The perturbed asset was held on the date before T, T is no rebalance
\* date, and the net returns of T differ between the two runs.
C1_Witness ==
    /\ bt_pert.kind = "price"
    /\ bt_alt.date = bt_pert.day
    /\ bt_pert.day >= 1
    /\ bt_pert.day % bt_params.rebalance_days # 0
    /\ bt_run.lagged_positions[bt_pert.asset] = <<1>>
    /\ bt_alt.daily_returns[bt_pert.asset] # bt_run.daily_returns[bt_pert.asset]
    /\ bt_alt.net_strategy_ret # bt_run.net_strategy_ret

\* C2: positions are lagged by exactly one date before they are multiplied
\* by daily returns: whenever run_backtest computes a date T after the
\* first, the gross strategy return of T is the sum over assets of the
\* position of T-1 times the daily return of T (the relative change of the
\* price from T-1 to T), so the position selected from the scores of T
\* first earns on T+1; the gross return of the first date is 0.
C2_PositionsLaggedOneDate ==
    [][bt_day' = bt_day + 1 =>
         /\ \A a \in Columns :
               (bt_run.prices[a] # NaN /\ bt_run'.prices[a] # NaN) =>
                   /\ bt_run'.daily_returns[a] # NaN
                   /\ bt_run'.daily_returns[a][1] * bt_run.prices[a][1]
                         = ReturnScale * (bt_run'.prices[a][1]
                                          - bt_run.prices[a][1])
         /\ bt_day' = 0 => bt_run'.strategy_daily_ret = 0
         /\ bt_day' > 0 =>
               bt_run'.strategy_daily_ret
                  = EarnedBy(bt_run.positions, bt_run'.daily_returns, Columns)
    ]_vars

\* A date after the first with a gross return that is not 0, on which the
\* positions changed: the positions of the date itself would have earned
\* another return.
C2_Witness ==
    /\ bt_pert.kind = "none"
    /\ bt_day >= 1
    /\ bt_run.strategy_daily_ret # 0
    /\ bt_run.positions # bt_run.lagged_positions
    /\ EarnedBy(bt_run.positions, bt_run.daily_returns, Columns)
          # bt_run.strategy_daily_ret

\* C15: for a price matrix of a single asset, top_n = 1 and a constant
\* score, run_backtest holds a full position in the asset on every date, no
\* turnover is charged, and total_return is the buy-and-hold return of the
\* asset: last price / first price - 1.
C15_BuyAndHold ==
    (/\ bt_pert.kind = "run"
     /\ bt_run.result # Pending
     /\ Len(bt_params.columns) = 1
     /\ bt_params.top_n = 1
     /\ Len(bt_run.prices) >= 1) =>
        LET a == bt_params.columns[1]
            n == Len(bt_run.prices)
            first == bt_run.prices[1][a][1]
            last == bt_run.prices[n][a][1]
            result == bt_run.result
        IN  /\ result.outcome = "stats"
            /\ \A t \in 1..n :
                  /\ result.rows[t].positions[a] = <<1>>
                  /\ result.rows[t].turnover = 0
            /\ result.total_return.num * first
                  = (last - first) * result.total_return.den

\* A single asset held over three dates on which its price doubles.
C15_Witness ==
    /\ bt_pert.kind = "run"
    /\ bt_run.result # Pending
    /\ bt_params.columns = <<"bitcoin">>
    /\ bt_params.top_n = 1
    /\ Len(bt_run.prices) = 3
    /\ bt_run.prices[1]["bitcoin"] = <<1>>
    /\ bt_run.prices[3]["bitcoin"] = <<2>>
    /\ bt_run.result.total_return = Frac(1, 1)

\* C16: on a price matrix of no date, or of no asset, run_backtest returns
\* a result and does not raise.
C16_DegenerateNeverRaises ==
    (/\ bt_pert.kind = "run"
     /\ bt_run.result # Pending
     /\ (Len(bt_run.prices) = 0 \/ Len(bt_params.columns) = 0)) =>
        bt_run.result.outcome = "stats"

\* The assets held on a row of positions.
Held(position_row) == {a \in Columns : position_row[a] = <<1>>}

\* S is a choice of the top_n highest-scoring assets: top_n of them, or all
\* when there are fewer, and none outside S scores higher than one inside.
IsTopN(S, scores, top_n) ==
    /\ S \subseteq Columns
    /\ Cardinality(S) = IF top_n <= Cardinality(Columns) THEN top_n
                         ELSE Cardinality(Columns)
    /\ \A a \in S : \A b \in Columns \ S : scores[a] >= scores[b]

\* C18: with rebalance dates at the rows 0, r, 2r, ... (r >= 2), the
\* positions of a rebalance date are 1/top_n for the top_n highest-scoring
\* assets of that date and 0 for all others, whatever was held before, and
\* the positions of every other date are those of the date before; so at
\* every date a position is 0 or 1/top_n, at most top_n assets are held and
\* the exposure is at most 1.
C18_PositionRule ==
    [][bt_day' = bt_day + 1 /\ bt_pert.kind = "none" =>
         /\ bt_params.rebalance_days >= 2
         /\ \A a \in Columns : bt_run'.positions[a] \in {<<0>>, <<1>>}
         /\ Cardinality(Held(bt_run'.positions)) <= bt_params.top_n
         /\ bt_day' % bt_params.rebalance_days = 0 =>
               IsTopN(Held(bt_run'.positions), bt_run'.day_scores,
                      bt_params.top_n)
         /\ bt_day' % bt_params.rebalance_days # 0 =>
               bt_run'.positions = bt_run.positions
    ]_vars

\* A rebalance date after the first on which the asset held so far is not
\* selected again and the other one is: the position goes to 0 at once.
C18_Witness ==
    /\ bt_pert.kind = "none"
    /\ bt_day >= bt_params.rebalance_days
    /\ bt_day % bt_params.rebalance_days = 0
    /\ bt_params.top_n = 1
    /\ \E a \in Columns :
          /\ bt_run.lagged_positions[a] = <<1>>
          /\ bt_run.positions[a] = <<0>>
          /\ \E b \in Columns : bt_run.day_scores[b] > bt_run.day_scores[a]

\* The turnover of a date when the portfolio is empty before the first
\* date: the sum over assets of |position[T] - position[T-1]|.
TurnoverFromEmpty(run) ==
    Cardinality({a \in Columns :
        run.positions[a] # (IF run.lagged_positions[a] = NaN THEN <<0>>
                            ELSE run.lagged_positions[a])})

\* C19: on every date the net strategy return is the gross return minus
\* fee_rate times the turnover, the sum over assets of
\* |position[T] - position[T-1]| with an empty portfolio before the first
\* date: opening the first positions is charged like any other change.
C19_EveryChangeCharged ==
    (bt_pert.kind = "none" /\ bt_day >= 0) =>
        bt_run.net_strategy_ret
            = bt_run.strategy_daily_ret * FeeRateDen
              - TurnoverFromEmpty(bt_run) * FeeRateNum * ReturnScale

(***************************************************************************)
(* Claims about StrategyLoader                                             *)
(***************************************************************************)

\* C7: get_strategy never raises: after any sequence of
\* load_custom_strategies calls the registry still holds 'balanced', and
\* get_strategy(name) returns the registered strategy of a registered name
\* and the strategy registered under 'balanced' for any other name.
C7_GetStrategyNeverRaises ==
    /\ "balanced" \in DOMAIN strategies
    /\ \A n \in QueryNames : get_strategy(strategies, n) # KeyError
    /\ last_call.kind = "get" =>
          /\ last_call.result # KeyError
          /\ last_call.name \in DOMAIN strategies
                => last_call.result = strategies[last_call.name]
          /\ last_call.name \notin DOMAIN strategies
                => last_call.result = strategies["balanced"]

\* An unknown name was asked for after 'balanced' was redefined by a
\* document, and the redefined 'balanced' came back.
C7_Witness ==
    /\ last_call.kind = "get"
    /\ last_call.name = "unknown"
    /\ "custom" \in DOMAIN strategies
    /\ strategies["balanced"] # DEFAULT_STRATEGIES["balanced"]
    /\ last_call.result = strategies["balanced"]

\* C8: load_custom_strategies registers every valid entry of a parsed
\* document, as validated, whatever malformed entries (no 'weights' key, or
\* weights that are no mapping of numbers) stand before or after it.
C8_MalformedEntryDropsOnlyItself ==
    (last_call.kind = "load" /\ last_call.doc.status = "parsed") =>
        \A i \in 1..Len(last_call.doc.data) :
            LET e == last_call.doc.data[i]
                v == validate_strategy_weights(e.entry)
            IN  v.outcome = "true" =>
                    /\ e.name \in DOMAIN strategies
                    /\ strategies[e.name] = v.strategy

\* C9: every registered strategy has no zero weight and the absolute values
\* of its weights sum to 1.0 within 0.001; a negative weight of a document
\* stays negative in the registry.
WeightsNormalised(s) ==
    /\ \A f \in DOMAIN s.weights : s.weights[f] # 0
    /\ Abs(SumAbs(s.weights, DOMAIN s.weights) - s.den) * Milli <= Tolerance * s.den

C9_RegistryWeightInvariant ==
    /\ \A n \in DOMAIN strategies :
          /\ DOMAIN strategies[n].weights # {}
          /\ strategies[n].den > 0
          /\ WeightsNormalised(strategies[n])
    /\ (last_call.kind = "load" /\ last_call.doc.status = "parsed"
          /\ ValidateAll(last_call.doc.data, 1, <<>>).outcome = "done") =>
            \A i \in 1..Len(last_call.doc.data) :
                LET e == last_call.doc.data[i]
                    w == e.entry.weights
                IN  validate_strategy_weights(e.entry).outcome = "true" =>
                      /\ e.name \in DOMAIN strategies
                      /\ \A f \in DOMAIN w :
                            IF w[f] = 0
                            THEN f \notin DOMAIN strategies[e.name].weights
                            ELSE /\ f \in DOMAIN strategies[e.name].weights
                                 /\ strategies[e.name].weights[f] * w[f] > 0

\* A document entry with a negative weight and a zero weight was registered:
\* the zero weight is gone, and the rest was divided by its absolute sum.
C9_Witness ==
    /\ last_call.kind = "load"
    /\ "custom" \in DOMAIN strategies
    /\ \E f \in DOMAIN strategies["custom"].weights : strategies["custom"].weights[f] < 0
    /\ DOMAIN strategies["custom"].weights # DocFactors
    /\ strategies["custom"].den # Milli

\* C25: normalising the weights is idempotent: validate_strategy_weights on
\* a strategy it has accepted and normalised returns True again and leaves
\* every weight and the set of factor names as they were.
C25_NormalisationIdempotent ==
    last_call.kind = "validate" =>
        /\ last_call.result.outcome = "true"
        /\ DOMAIN last_call.result.strategy.weights = DOMAIN last_call.before.weights
        /\ \A f \in DOMAIN last_call.before.weights :
              last_call.result.strategy.weights[f] * last_call.before.den
                = last_call.before.weights[f] * last_call.result.strategy.den
        /\ strategies[last_call.name] = last_call.before

\* The strategy validated again was loaded from a document and had been
\* divided by an absolute sum other than 1, with a negative weight.
C25_Witness ==
    /\ last_call.kind = "validate"
    /\ last_call.name = "custom"
    /\ last_call.before.den # Milli
    /\ \E f \in DOMAIN last_call.before.weights : last_call.before.weights[f] < 0

(***************************************************************************)
(* Claims about ScoreCalculator                                            *)
(***************************************************************************)

ScoreRows == score_call.result.rows
RawLess(a, b) == FracLess(a.raw_score, b.raw_score)

\* C3: every score of a returned table lies in [0, 100]; when the raw scores
\* are not all equal, a row of maximal raw score has score exactly 100 and a
\* row of minimal raw score has score exactly 0; when they are all equal,
\* every score is exactly 50.
C3_ScoresMinMaxScaled ==
    score_call.result.outcome = "table" =>
        LET rows == ScoreRows
            I == 1..Len(rows)
            allEqual == \A i, j \in I : ~RawLess(rows[i], rows[j])
        IN  /\ Len(rows) = Len(score_call.factors_df.coins)
            /\ \A i \in I :
                 /\ rows[i].score.den > 0
                 /\ 0 <= rows[i].score.num
                 /\ FracLeqInt(rows[i].score, 100)
                 /\ allEqual => FracEq(rows[i].score, Frac(50, 1))
                 /\ (~allEqual /\ \A j \in I : ~RawLess(rows[i], rows[j]))
                       => FracEq(rows[i].score, Frac(100, 1))
                 /\ (~allEqual /\ \A j \in I : ~RawLess(rows[j], rows[i]))
                       => FracEq(rows[i].score, Frac(0, 1))

\* A table of two assets with different raw scores, scored 100 and 0.
C3_Witness ==
    /\ score_call.result.outcome = "table"
    /\ Len(ScoreRows) = 2
    /\ FracEq(ScoreRows[1].score, Frac(100, 1))
    /\ FracEq(ScoreRows[2].score, Frac(0, 1))
    /\ RawLess(ScoreRows[2], ScoreRows[1])

\* sum of weight[f] * zscore[asset, f] over the factors both of the strategy
\* and of the panel
RECURSIVE SumOver(_, _, _)
SumOver(zrow, weights, F) ==
    IF F = {} THEN 0
    ELSE LET f == CHOOSE x \in F : TRUE
         IN  zrow[f] * weights[f] + SumOver(zrow, weights, F \ {f})

\* C4: for a non-empty panel and a strategy with non-empty weights,
\* calculate_scores returns a Score table, without raising, whose raw_score
\* is the weighted sum over the factors present in both; a factor of the
\* strategy that the panel lacks contributes 0, also when the panel has none
\* of the strategy's factors.
C4_AbsentFactorsNeverRaise ==
    (/\ score_call.result # Pending
     /\ Len(score_call.factors_df.coins) > 0
     /\ DOMAIN get_strategy(strategies, score_call.strategy_name).weights # {}) =>
        LET strategy == get_strategy(strategies, score_call.strategy_name)
            df == score_call.factors_df
            both == DOMAIN strategy.weights \cap df.columns
        IN  /\ score_call.result.outcome = "table"
            /\ \A i \in 1..Len(df.coins) :
                 \E k \in 1..Len(ScoreRows) :
                    /\ ScoreRows[k].coin_id = df.coins[i]
                    /\ ScoreRows[k].raw_score
                         = Frac(SumOver(df.z[i], strategy.weights, both), strategy.den)

(***************************************************************************)
(* Claims about AssetRanker                                                *)
(***************************************************************************)

RowsOf(df) == IF df.outcome = "table" THEN df.rows ELSE <<>>
CoinsOf(df) == {RowsOf(df)[k].coin_id : k \in 1..Len(RowsOf(df))}
RowOfCoin(df, c) == RowsOf(df)[CHOOSE k \in 1..Len(RowsOf(df)) : RowsOf(df)[k].coin_id = c]
Min2(a, b) == IF a <= b THEN a ELSE b

\* C5: the combined ranking is a strict inner join on coin_id: it has at
\* most min(len(long), len(short)) rows, one for each asset present in both
\* inputs and none for any other, each with the two scores of its asset and
\* net_score = score_long - score_short; it is empty if either input is.
C5_StrictInnerJoin ==
    rank_call.result # Pending =>
        LET long_df == rank_call.long_df
            short_df == rank_call.short_df
            out == RowsOf(rank_call.result)
        IN  /\ Len(out) <= Min2(Len(RowsOf(long_df)), Len(RowsOf(short_df)))
            /\ {out[k].coin_id : k \in 1..Len(out)} = CoinsOf(long_df) \cap CoinsOf(short_df)
            /\ \A k \in 1..Len(out) :
                 /\ out[k].score_long = RowOfCoin(long_df, out[k].coin_id).score
                 /\ out[k].score_short = RowOfCoin(short_df, out[k].coin_id).score
                 /\ out[k].net_score.den > 0
                 /\ out[k].net_score.num * out[k].score_long.den * out[k].score_short.den
                      = (out[k].score_long.num * out[k].score_short.den
                         - out[k].score_short.num * out[k].score_long.den)
                        * out[k].net_score.den
            /\ (IsEmpty(long_df) \/ IsEmpty(short_df)) => IsEmpty(rank_call.result)

\* Two tables over different universes were joined: an asset of the long
\* table is missing from the result, and a row has a non-zero net score.
C5_Witness ==
    /\ rank_call.result # Pending
    /\ rank_call.result.outcome = "table"
    /\ Len(rank_call.result.rows) >= 1
    /\ Len(rank_call.result.rows) < Len(RowsOf(rank_call.long_df))
    /\ \E k \in 1..Len(rank_call.result.rows) :
          rank_call.result.rows[k].net_score.num # 0

\* C6: every row of the combined ranking carries the primary_driver of its
\* asset's long-side Score row.
C6_PrimaryDriverPreserved ==
    (rank_call.result # Pending /\ rank_call.result.outcome = "table") =>
        \A k \in 1..Len(rank_call.result.rows) :
            LET row == rank_call.result.rows[k]
            IN  /\ "primary_driver" \in DOMAIN row
                /\ row["primary_driver"]
                     = RowOfCoin(rank_call.long_df, row.coin_id).primary_driver

\* C21: final_rank is the dense rank of net_score in descending order: the
\* rows are in order of non-increasing net_score, rows of equal net_score
\* share a final rank, and the ranks have no gaps.
C21_FinalRankIsDense ==
    (rank_call.result # Pending /\ rank_call.result.outcome = "table") =>
        LET rows == rank_call.result.rows
            higher(i) == {rows[j].net_score : j \in
                            {k \in 1..Len(rows) :
                                FracLess(rows[i].net_score, rows[k].net_score)}}
        IN  /\ \A i \in 1..Len(rows) : \A j \in i..Len(rows) :
                    ~FracLess(rows[i].net_score, rows[j].net_score)
            /\ \A i \in 1..Len(rows) :
                    rows[i].final_rank = 1 + Cardinality(higher(i))

FracLessInt(a, k) == a.num < k * a.den
FracGreaterInt(a, k) == a.num > k * a.den

\* C22: the signal of a row is decided by its net_score alone, one label a
\* row: 'Strong Buy' iff net_score >= 50, 'Buy' iff 15 <= net_score < 50,
\* 'Neutral' iff -15 < net_score < 15, 'Sell' iff -50 < net_score <= -15,
\* 'Strong Sell' iff net_score <= -50.
C22_SignalFromNetScore ==
    (rank_call.result # Pending /\ rank_call.result.outcome = "table") =>
        \A k \in 1..Len(rank_call.result.rows) :
            LET row == rank_call.result.rows[k]
                x == row.net_score
            IN  /\ row.signal \in {"Strong Buy", "Buy", "Neutral", "Sell", "Strong Sell"}
                /\ row.signal = "Strong Buy" <=> FracGeqInt(x, 50)
                /\ row.signal = "Buy" <=> FracGeqInt(x, 15) /\ FracLessInt(x, 50)
                /\ row.signal = "Neutral"
                      <=> FracGreaterInt(x, -15) /\ FracLessInt(x, 15)
                /\ row.signal = "Sell"
                      <=> FracGreaterInt(x, -50) /\ FracLeqInt(x, -15)
                /\ row.signal = "Strong Sell" <=> FracLeqInt(x, -50)

\* One ranking holds a row at net_score exactly -50, a row at exactly 50
\* and a row strictly between -15 and 15.
C22_Witness ==
    /\ rank_call.result # Pending
    /\ rank_call.result.outcome = "table"
    /\ \E i, j, k \in 1..Len(rank_call.result.rows) :
          LET rows == rank_call.result.rows
          IN  /\ rows[i].net_score = Frac(-50, 1)
              /\ rows[i].signal = "Strong Sell"
              /\ rows[j].net_score = Frac(50, 1)
              /\ rows[j].signal = "Strong Buy"
              /\ rows[k].signal = "Neutral"

(***************************************************************************)
(* Claims about MarketRegimeDetector                                       *)
(***************************************************************************)

\* C10: with fewer than 30 benchmark price points, an empty or absent
\* history included, the verdict is regime 'neutral' with suggested strategy
\* 'balanced', whatever the market snapshot holds.
C10_ShortHistoryIsNeutral ==
    LET btc_data == regime_call.historical_data.bitcoin
    IN  (/\ regime_call.result # Pending
         /\ (~btc_data.present \/ Len(btc_data.rows) < MinHistory)) =>
            /\ regime_call.result.regime = "neutral"
            /\ regime_call.result.suggested_strategy = "balanced"

\* C11: for every benchmark history of at least 30 points whose 30-day
\* change is below -15 percent, the verdict is regime 'bear' with the
\* bear strategy suggested, whatever the 7-day change and the market
\* snapshot are.
C11_DeepFallIsBear ==
    LET btc_data == regime_call.historical_data.bitcoin
    IN  (/\ regime_call.result # Pending
         /\ btc_data.present
         /\ Len(btc_data.rows) >= MinHistory
         /\ regime_call.result.btc_change_30d.num
               < -15 * regime_call.result.btc_change_30d.den) =>
            /\ regime_call.result.regime = "bear"
            /\ regime_call.result.suggested_strategy = "value_defensive"

(***************************************************************************)
(* Claims about CryptoAladdinPipeline                                      *)
(***************************************************************************)

Ran(step) == \E i \in 1..Len(pipeline.steps) : pipeline.steps[i] = step

\* C12: a run of run_full_pipeline that has reached regime detection and has
\* ended has got a verdict, has computed the dual scores with the verdict's
\* suggested strategy as the long strategy, and has built the combined
\* ranking.
C12_RegimeLeadsToScoring ==
    (/\ pipeline.pc \in {"returned", "report"}
     /\ Ran("regime")) =>
        /\ pipeline.market_regime # TypeError
        /\ pipeline.long_strat = pipeline.market_regime.suggested_strategy
        /\ Ran("dual_scores")
        /\ Ran("combined_ranking")

(***************************************************************************)
(* Claims about FactorCalculator                                           *)
(***************************************************************************)

\* The values of the cells of a series that are not NaN.
ValuesOf(series) == {series[i][1] : i \in Present(series)}

\* C13: every normalised factor value is a number in [-3, 3], never NaN:
\* calculate_zscore_factor and the normalisation of calculate_rolling_factors
\* return one such cell per input cell, and all cells are 0 when the input
\* is empty, all missing or of zero variance, and for a row of a single
\* defined cell.
C13_FactorsBoundedAndDefined ==
    factor_call.result # Pending /\ factor_call.fn \in
        {"calculate_zscore_factor", "calculate_rolling_factors"} =>
        LET series == factor_call.series
            result == factor_call.result.cells
        IN  /\ Len(result) = Len(series)
            /\ \A i \in 1..Len(result) :
                  /\ result[i] # NaN
                  /\ result[i][1].sign \in {-1, 0, 1}
                  /\ result[i][1].sq.num >= 0
                  /\ result[i][1].sq.num <= 9 * result[i][1].sq.den
                  /\ (result[i][1].sign = 0) <=> (result[i][1].sq.num = 0)
            /\ Cardinality(ValuesOf(series)) <= 1 =>
                  \A i \in 1..Len(result) : result[i] = ZZero

\* A series of eleven cells with one outlier, whose z-score is clipped to 3.
C13_Witness ==
    /\ factor_call.result # Pending
    /\ factor_call.fn = "calculate_rolling_factors"
    /\ Len(factor_call.series) = 11
    /\ Cardinality(ValuesOf(factor_call.series)) = 2
    /\ \E i \in 1..11 :
          factor_call.result.cells[i] = ZNumber(1, Frac(9, 1))

\* The rows of coin c that were observed on or before day d.
ObservedBy(historical_data, c, d) ==
    {i \in 1..Len(historical_data[c].rows) :
        to_datetime(historical_data[c].rows[i].date) <= d}

\* Row i of coin c is the first row of the latest date observed by day d.
LatestFirst(historical_data, c, d, i) ==
    LET rows == historical_data[c].rows
        seen == ObservedBy(historical_data, c, d)
    IN  /\ i \in seen
        /\ \A j \in seen :
              /\ to_datetime(rows[j].date) <= to_datetime(rows[i].date)
              /\ rows[j].date = rows[i].date => i <= j

\* C14: the row dates of the matrix of prepare_price_matrix are strictly
\* ascending, hence unique, and are the dates observed for some asset; the
\* cell of date d and asset a is a's price at its most recent observation
\* on or before d, the first one when that date occurs twice, and is
\* missing when a has no observation on or before d.
C14_PriceMatrixForwardFilled ==
    factor_call.result # Pending /\ factor_call.fn = "prepare_price_matrix" =>
        LET h == factor_call.historical_data
            pm == factor_call.result
        IN  /\ Len(pm.rows) = Len(pm.index)
            /\ \A k \in 1..(Len(pm.index) - 1) : pm.index[k] < pm.index[k + 1]
            /\ \A k \in 1..Len(pm.index) : \A n \in 1..Len(pm.columns) :
                  LET c == pm.columns[n]
                      seen == ObservedBy(h, c, pm.index[k])
                  IN  /\ seen = {} => pm.rows[k][c] = NaN
                      /\ \A i \in seen :
                            LatestFirst(h, c, pm.index[k], i)
                               => pm.rows[k][c] = <<h[c].rows[i].price>>
            /\ \A n \in 1..Len(pm.columns) :
                  \A i \in 1..Len(h[pm.columns[n]].rows) :
                     \E k \in 1..Len(pm.index) :
                        pm.index[k] = to_datetime(h[pm.columns[n]].rows[i].date)

\* Bitcoin is observed twice on the first day, at two prices, and not on
\* the third; ethereum is observed on the third day only: the matrix has
\* the first price of bitcoin forward-filled on the third day, where
\* ethereum starts.
C14_Witness ==
    /\ factor_call.result # Pending
    /\ factor_call.fn = "prepare_price_matrix"
    /\ factor_call.historical_data["bitcoin"].rows
          = <<[date |-> "2024-01-01", price |-> 2],
              [date |-> "2024-01-01", price |-> 1]>>
    /\ factor_call.result.index = <<1, 3>>
    /\ factor_call.result.rows[1]["ethereum"] = NaN
    /\ factor_call.result.rows[2]["bitcoin"] = <<2>>
    /\ factor_call.result.rows[2]["ethereum"] # NaN

\* The days on which coin c is observed.
DaysOf(historical_data, c) ==
    {to_datetime(historical_data[c].rows[i].date) :
        i \in 1..Len(historical_data[c].rows)}

\* C17: when the price histories given to prepare_price_matrix, of two
\* assets or more, have no date in common, the result is the empty matrix.
C17_NoCommonDateIsEmpty ==
    factor_call.result # Pending /\ factor_call.fn = "prepare_price_matrix" =>
        LET h == factor_call.historical_data
            listed == {c \in MatrixCoins : /\ h[c].present /\ h[c].has_price
                                           /\ Len(h[c].rows) > 0}
        IN  (/\ Cardinality(listed) >= 2
             /\ ~ \E d \in 1..Len(DateTexts) :
                    \A c \in listed : d \in DaysOf(h, c))
                => factor_call.result = EmptyMatrix

(***************************************************************************)
(* Claims about the ranks of ScoreCalculator                               *)
(***************************************************************************)

\* C20: the rank column of the table of calculate_scores is the dense rank
\* of score in descending order: a row's rank is 1 plus the number of
\* distinct scores above its own, so equal scores share a rank and the
\* ranks are 1..k without gaps.
C20_RankIsDense ==
    (score_call.result # Pending /\ score_call.result.outcome = "table") =>
        LET rows == score_call.result.rows
        IN  \A i \in 1..Len(rows) :
              rows[i].rank
                = 1 + Cardinality({rows[j].score : j \in
                        {k \in 1..Len(rows) :
                            FracLess(rows[i].score, rows[k].score)}})

\* The row of the panel that a row of the Score table is about.
PanelRowOf(factors_df, coin_id) ==
    CHOOSE i \in 1..Len(factors_df.coins) : factors_df.coins[i] = coin_id

\* C23: for every asset of the Score table, primary_driver is a factor, among
\* the strategy's factors present in the panel, that maximises
\* weight[f] * zscore[asset, f] under the weights and z-scores behind the
\* asset's raw_score; the driver stays with its asset when the table is
\* sorted by score.
C23_PrimaryDriverMaximises ==
    (score_call.result # Pending /\ score_call.result.outcome = "table") =>
        LET factors_df == score_call.factors_df
            strategy == get_strategy(strategies, score_call.strategy_name)
            weights == strategy.weights
            present == DOMAIN weights \cap factors_df.columns
            rows == score_call.result.rows
        IN  \A k \in 1..Len(rows) :
              LET zrow == factors_df.z[PanelRowOf(factors_df, rows[k].coin_id)]
                  d == rows[k].primary_driver
              IN  /\ d \in present
                  /\ \A f \in present : weights[f] * zrow[f] <= weights[d] * zrow[d]
                  /\ rows[k].raw_score.num * strategy.den
                       = SumOver(zrow, weights, present) * rows[k].raw_score.den

\* The sort moved the second asset of the panel to the top, and the two
\* assets have different drivers.
C23_Witness ==
    /\ score_call.result # Pending
    /\ score_call.result.outcome = "table"
    /\ Len(score_call.result.rows) >= 2
    /\ score_call.result.rows[1].coin_id = score_call.factors_df.coins[2]
    /\ score_call.result.rows[2].coin_id = score_call.factors_df.coins[1]
    /\ score_call.result.rows[1].primary_driver
         # score_call.result.rows[2].primary_driver

(***************************************************************************)
(* Claims about calculate_rolling_factors                                  *)
(***************************************************************************)

\* C24: the rolling normalisation is independent from date to date: the
\* normalised row of a date is a function of the raw factor row of that date
\* only, so two frames with the same raw row on a date have the same
\* normalised row on it, whatever the values and the defined assets of the
\* other dates.
C24_NormalisedRowOfItsDateOnly ==
    (factor_call.result # Pending /\ factor_call.result.outcome = "frames") =>
        /\ factor_call.result.base[factor_call.day]
             = factor_call.result.alt[factor_call.day]
        /\ factor_call.result.base[factor_call.day]
             = rolling_zscore_row(factor_call.df[factor_call.day])

\* The other date of the two frames differs in its defined assets and in
\* its normalised row, and the common date has a non-zero normalised cell.
C24_Witness ==
    /\ factor_call.result # Pending
    /\ factor_call.result.outcome = "frames"
    /\ \E d \in DOMAIN FrameIndex :
          /\ d # factor_call.day
          /\ Present(factor_call.df[d]) # Present(factor_call.alt[d])
          /\ factor_call.result.base[d] # factor_call.result.alt[d]
    /\ \E i \in DOMAIN FrameColumns :
          factor_call.result.base[factor_call.day][i] # ZZero

(***************************************************************************)
(* Claims about the weights and the universe of run_backtest               *)
(***************************************************************************)

\* C26: run_backtest(strategy_name) combines the factor panels with exactly
\* the weights the pipeline's ScoreCalculator uses for that name, for every
\* name the pipeline's loader has registered, strategies of
\* load_custom_strategies included; no registered name is scored with the
\* weights of 'balanced' in its place.
C26_BacktestUsesPipelineWeights ==
    (bt_pert.kind = "weights" /\ bt_run.result # Pending) =>
        LET strategy == get_strategy(strategies, bt_params.strategy_name)
        IN  \A a \in Columns :
              bt_run.result.scores[a] * strategy.den
                = CombinedScore(strategy, bt_run.factor_rows, a, Len(strategy.order))
                    * bt_run.result.den

\* C27: every suggested_strategy that analyze_market_condition returns is a
\* name of the built-in registry, so that get_strategy answers with the
\* weights registered under that name and not with the fallback; the bull,
\* the bear and the neutral regime then score with different weights.
C27_SuggestedStrategyRegistered ==
    regime_call.result # Pending =>
        /\ regime_call.result.suggested_strategy \in DOMAIN DEFAULT_STRATEGIES
        /\ (regime_call.result.regime # "neutral"
              => get_strategy(DEFAULT_STRATEGIES, regime_call.result.suggested_strategy)
                   # DEFAULT_STRATEGIES["balanced"])

\* C28: on every rebalance date the positions go only to assets that have a
\* price on that date: an asset whose price history has not started yet is
\* not among the selected top_n and takes no share of the allocation.
C28_OnlyPricedAssetsSelected ==
    (bt_pert.kind = "none" /\ bt_day >= 0
       /\ bt_day % bt_params.rebalance_days = 0) =>
        \A a \in Held(bt_run.positions) : bt_run.prices[a] # NaN

\* C29: _quick_backtest follows the position logic of run_backtest: on the
\* same combined scores its positions on every date are those of
\* run_backtest with rebalance_days = 7 and top_n = 5, the top 5 assets held
\* at 0.2 each from a rebalance date until the next.
C29_QuickPositionsAsRunBacktest ==
    (bt_pert.kind = "quick" /\ bt_day >= 0) =>
        /\ bt_alt.day_scores = bt_run.day_scores
        /\ bt_alt.positions = bt_run.positions

\* C30: the rolling factors look at no later date: every value that
\* calculate_rolling_factors gives for a date depends on the prices of that
\* date and of earlier dates only, so for two price matrices that are equal
\* on all dates up to a date T the four factor matrices are equal on all
\* dates up to T.
C30_NoLookAheadInFactors ==
    (factor_call.result # Pending /\ factor_call.result.outcome = "factors") =>
        \A name \in RollingFactors : \A t \in 1..factor_call.day :
            factor_call.result.base[name][t] = factor_call.result.alt[name][t]

\* The two matrices differ in a price of the date after one on which all
\* four factors are defined and not 0, and a factor of that later date
\* differs between them.
C30_Witness ==
    /\ factor_call.result # Pending
    /\ factor_call.result.outcome = "factors"
    /\ factor_call.day > MomentumDays
    /\ \A name \in RollingFactors :
          factor_call.result.base[name][factor_call.day][1] # ZZero
    /\ \E name \in RollingFactors :
          factor_call.result.base[name][factor_call.day + 1]
            # factor_call.result.alt[name][factor_call.day + 1]

====
